---- MODULE Spec2Model ----
(***************************************************************************)
(* A model of the bpftrace code generator (src/ast/codegen_llvm.cpp).      *)
(*                                                                         *)
(* Ten state machines share this module:                                   *)
(*   Spec     the probe driver: visit(Program), visit(Probe),              *)
(*            generateProbe, getNextIndexForProbe, the id counters;        *)
(*   SpecIR   the lowering of one probe (predicate and body) to a control  *)
(*            flow graph of basic blocks, and the execution of that graph; *)
(*   SpecMap  the execution of the emitted aggregation sequences against a *)
(*            map shared by several CPUs;                                  *)
(*   SpecFn   the execution of the generated log2 and linear helpers;      *)
(*   SpecAgg  the execution of sum, min, max, hist and lhist against a map *)
(*            shared by several CPUs;                                      *)
(*   SpecCtx  the instructions emitted for reads of the probe context;     *)
(*   SpecCall the instructions emitted for the size of str and buf;        *)
(*   SpecRel  accept() and the release a visit leaves for its caller;      *)
(*   SpecLoop the lowering of while, break, continue and return;           *)
(*   SpecGen  the phases of the generator: generate_ir, optimize, emit,    *)
(*            emit_elf, compile and DumpIR called in any order.            *)
(* Each specification leaves the variables of the others untouched.        *)
(***************************************************************************)
EXTENDS Integers, Sequences, FiniteSets, TLC

\* ------------------------------------------------------------------ bounds
\* Probes in a Program.
MaxProbes == 2
\* USDT locations the metadata of one match may report.
MaxLocations == 2
\* CPUs the probes fire on.
NumCpus == 2
\* Invocations of count() started in one run.
MaxInvocations == 3
\* Calls of sum, min, max, hist or lhist started in one run.
MaxAggCalls == 2
\* Expressions reading the context that are lowered in one run.
MaxCtxReads == 2
\* Statements of the probe body walked.
MaxStatements == 2
\* Whiles nested in one another, and statements lowered in one run.
MaxLoopDepth == 2
MaxLoopStmts == 4
\* Releases installed plus accept() calls still to make in one walk, above
\* which only integers are visited.
MaxRelNodes == 4
\* Calls of the generator's operations logged before the last one is made.
MaxGenCalls == 5

VARIABLES
  \* ---- probe driver (Spec)
  program,                      \* root_: the Program, a sequence of Probes
  pc,                           \* position of the driver inside visit(Program)/visit(Probe)
  probe_i,                      \* index of the probe visit(Program) is at
  ap_i,                         \* index of the attach point the loop of visit(Probe) is at
  current_attach_point_,        \* index of the attach point, 0 for nullptr
  matches,                      \* the std::set of matches not yet iterated, in iteration order
  match,                        \* the match being expanded
  probefull_,
  usdt_num_locations,           \* attach_point->usdt.num_locations
  loc_i,                        \* the loop variable i of the location loop
  current_usdt_location_index_,
  ids,                          \* printf_id_, cat_id_, ..., b_.helper_error_id_
  starting,                     \* the starting_* locals of visit(Probe)
  next_probe_index_,
  programs,                     \* the functions of module_, in emission order
  resolver_log,                 \* the attach points find_wildcard_matches was asked about
  resolved,                     \* what find_wildcard_matches returned last, in insertion order
  delivered,                    \* history: the match sets and usdt location counts received
  entry_ids,                    \* history: ids on entry to visit(Probe), per probe
  \* ---- lowering of one probe and its execution (SpecIR)
  ir_probe,                     \* the Probe handed to generateProbe: pred and stmts
  ir_fn,                        \* the Function generateProbe built: its basic blocks
  ir_pc,                        \* "lower", "run", "returned" or "idle"
  rt_block,                     \* the block the running program is in
  rt_ip,                        \* the instruction of that block it is at
  regs,                         \* the SSA values computed so far
  mem,                          \* the stack slots
  trace,                        \* history: values produced and helper calls made
  retval,                       \* the value returned, -1 before the return
  ret_site,                     \* the return instruction that was executed
  \* ---- the map shared by the CPUs (SpecMap)
  map_slots,                    \* the map: the value of every key, or Absent
  map_init,                     \* history: the map when the probes started to fire
  cpu,                          \* per CPU: where it is in count(), its key and oldval
  started,                      \* invocations of count() started
  completed,                    \* history: invocations completed, per key
  overlapped,                   \* history: two invocations on the key overlapped
  \* ---- the aggregations min, max, sum, hist, lhist on a map (SpecAgg)
  agg_fn,                       \* the aggregation the map is used with
  agg_slots,                    \* the map: the value of every key that was written
  agg_cpu,                      \* per CPU: where it is in the call, its key, operand, oldval
  agg_log,                      \* history: the invocations completed, in order
  \* ---- the synthesized helpers log2 and linear (SpecFn)
  fn_pc,                        \* the block the helper is in, "returned" or "idle"
  fn_args,                      \* the arguments of the call
  fn_mem,                       \* the stack slots n and result
  fn_i,                         \* the next unrolled step of log2
  fn_ret,                       \* the value returned
  \* ---- the lowering of reads of the probe context (SpecCtx)
  ctx_insts,                    \* the instructions emitted so far
  ctx_log,                      \* history: the expressions lowered
  \* ---- the code emitted for str() and buf(), and its execution (SpecCall)
  call_in,                      \* the Call: func, the len argument, bpftrace_.strlen_
  call_pc,                      \* the instruction the emitted code is at
  call_val,                     \* the values and stack slots of the emitted code
  \* ---- the walk of accept() and the deferred release (SpecRel)
  rel_slot,                     \* expr_deleter_: 0 for nullptr, else the release it holds
  rel_stack,                    \* the visits in progress, the outermost first
  rel_log,                      \* history: per release, who installed it and what became of it
  \* ---- the lowering of while, break, continue and return (SpecLoop)
  loop_b,                       \* the builder b_ with the function being built
  loops_,                       \* loops_: the (while_cond, while_end) pairs, innermost last
  loop_frames,                  \* the calls of visit(While) in progress, with their locals
  loop_log,                     \* history: the jumps lowered and the whiles left
  \* ---- the phases of the generator (SpecGen)
  state_,                       \* state_: "INIT", "IR", "OPT" or "DONE"
  module_,                      \* module_: TRUE while it owns the Module, FALSE once moved from
  gen_halted,                   \* an assert has failed and the process was aborted
  gen_log                       \* history: the operations called and how each one ended

drvVars == <<program, pc, probe_i, ap_i, current_attach_point_, matches, match,
             probefull_, usdt_num_locations, loc_i, current_usdt_location_index_,
             ids, starting, next_probe_index_, programs, resolver_log, resolved, delivered,
             entry_ids>>

irVars == <<ir_probe, ir_fn, ir_pc, rt_block, rt_ip, regs, mem, trace, retval,
            ret_site>>

mapVars == <<map_slots, map_init, cpu, started, completed, overlapped>>

aggVars == <<agg_fn, agg_slots, agg_cpu, agg_log>>

fnVars == <<fn_pc, fn_args, fn_mem, fn_i, fn_ret>>

ctxVars == <<ctx_insts, ctx_log>>

callVars == <<call_in, call_pc, call_val>>

relVars == <<rel_slot, rel_stack, rel_log>>

loopVars == <<loop_b, loops_, loop_frames, loop_log>>

genVars == <<state_, module_, gen_halted, gen_log>>

\* The variables of the state machines defined after SpecCtx.
restVars == <<callVars, relVars, loopVars, genVars>>

vars == <<drvVars, irVars, mapVars, aggVars, fnVars, ctxVars, restVars>>

\* ------------------------------------------------------------ driver inputs

\* Attach points of the scripts considered: provider and the text after it.
kF == [provider |-> "kprobe", func |-> "f"]
kW == [provider |-> "kprobe", func |-> "f*"]
uP == [provider |-> "usdt", func |-> "lib:p*"]
bB == [provider |-> "BEGIN", func |-> ""]

\* Probe bodies, as the sequence of call sites and builtins that touch the
\* generator's state while the body is lowered.
BodyPrint == <<"printf", "arg0", "time", "printf">>
BodyAgg   == <<"count", "probe", "join", "print">>
BodyAsync == <<"system", "cat", "strftime">>

\* The probes a Program is made of.
Probes ==
  { [attach_points |-> <<kF>>,     need_expansion |-> FALSE, stmts |-> BodyPrint],
    [attach_points |-> <<kF>>,     need_expansion |-> TRUE,  stmts |-> BodyAgg],
    [attach_points |-> <<kW>>,     need_expansion |-> TRUE,  stmts |-> BodyAgg],
    [attach_points |-> <<kF, kW>>, need_expansion |-> FALSE, stmts |-> BodyAsync],
    [attach_points |-> <<kW, kF>>, need_expansion |-> TRUE,  stmts |-> BodyPrint],
    [attach_points |-> <<uP>>,     need_expansion |-> FALSE, stmts |-> BodyPrint],
    [attach_points |-> <<bB, uP>>, need_expansion |-> TRUE,  stmts |-> BodyAsync] }

Programs == UNION { [1..n -> Probes] : n \in 1..MaxProbes }

\* What the live system can hold for an attach point: the names the external
\* resolver may report for it.
Universe(ap) ==
  IF ap.provider = "kprobe" /\ ap.func = "f"  THEN {"f"}
  ELSE IF ap.provider = "kprobe" /\ ap.func = "f*" THEN {"f", "fg"}
  ELSE IF ap.provider = "usdt" THEN {"lib:p", "lib:pq"}
  ELSE {}

\* Every name of the model, in the order std::string's operator< gives.
NameOrder == <<"BEGIN", "f", "fg", "lib:p", "lib:pq">>

\* Sequences of distinct elements of S: the orders in which the resolver may
\* insert its matches into the result.
RECURSIVE Orders(_)
Orders(S) ==
  IF S = {} THEN {<<>>}
  ELSE {<<>>} \cup UNION { { <<x>> \o r : r \in Orders(S \ {x}) } : x \in S }

Range(s) == { s[k] : k \in 1..Len(s) }

\* ---------------------------------------------------------- driver helpers

\* AttachPoint::name(...) and Probe::name() (ast.cpp).
APName(provider, what) ==
  IF provider \in {"BEGIN", "END"} THEN provider ELSE provider \o ":" \o what

RECURSIVE JoinNames(_)
JoinNames(aps) ==
  IF Len(aps) = 0 THEN ""
  ELSE IF Len(aps) = 1 THEN APName(aps[1].provider, aps[1].func)
  ELSE APName(aps[1].provider, aps[1].func) \o "," \o JoinNames(Tail(aps))

ProbeName(probe) == JoinNames(probe.attach_points)

\* The iteration order of a std::set<std::string> holding the elements of S.
SetOrder(S) == SelectSeq(NameOrder, LAMBDA n : n \in S)

ZeroIds ==
  [printf_id_ |-> 0, cat_id_ |-> 0, system_id_ |-> 0, time_id_ |-> 0,
   strftime_id_ |-> 0, join_id_ |-> 0, helper_error_id_ |-> 0,
   non_map_print_id_ |-> 0]

IdNames == DOMAIN ZeroIds

\* reset_ids with one counter forgotten.
reset_ids_forgets_time(cur, start) ==
  [cur EXCEPT !.printf_id_ = start.printf_id_,
              !.cat_id_ = start.cat_id_,
              !.system_id_ = start.system_id_,
              !.strftime_id_ = start.strftime_id_,
              !.join_id_ = start.join_id_,
              !.helper_error_id_ = start.helper_error_id_,
              !.non_map_print_id_ = start.non_map_print_id_]

\* reset_ids of visit(Probe): every counter back to its starting_* value.
reset_ids(cur, start) ==
  [cur EXCEPT !.printf_id_ = start.printf_id_,
              !.cat_id_ = start.cat_id_,
              !.system_id_ = start.system_id_,
              !.time_id_ = start.time_id_,
              !.strftime_id_ = start.strftime_id_,
              !.join_id_ = start.join_id_,
              !.helper_error_id_ = start.helper_error_id_,
              !.non_map_print_id_ = start.non_map_print_id_]

\* getNextIndexForProbe with one counter for all names.
getNextIndexForProbe_shared(table, probe_name) ==
  LET last == IF DOMAIN table = {} THEN 0
              ELSE CHOOSE v \in { table[n] : n \in DOMAIN table } :
                     \A n \in DOMAIN table : table[n] <= v
      index == IF last = 0 THEN 1 ELSE last
  IN [index |-> index,
      table |-> [n \in DOMAIN table \cup {probe_name} |-> index + 1]]

\* getNextIndexForProbe: the index handed out and the table afterwards.
getNextIndexForProbe(table, probe_name) ==
  LET t1 == IF probe_name \in DOMAIN table THEN table
            ELSE [n \in DOMAIN table \cup {probe_name} |->
                    IF n = probe_name THEN 1 ELSE table[n]]
      index == t1[probe_name]
  IN [index |-> index, table |-> [t1 EXCEPT ![probe_name] = t1[probe_name] + 1]]

getSectionNameForProbe(probe_name, index) ==
  "s_" \o probe_name \o "_" \o ToString(index)

\* The counter a call site advances, "" when it advances none.
CounterOf(kind) ==
  CASE kind = "printf"   -> "printf_id_"
    [] kind = "system"   -> "system_id_"
    [] kind = "cat"      -> "cat_id_"
    [] kind = "time"     -> "time_id_"
    [] kind = "strftime" -> "strftime_id_"
    [] kind = "join"     -> "join_id_"
    [] kind = "print"    -> "non_map_print_id_"
    [] kind = "count"    -> "helper_error_id_"
    [] OTHER             -> ""

\* Lowering one call site or builtin of the body: the counters afterwards.
visitCallIds(cur, kind) ==
  IF CounterOf(kind) = "" THEN cur
  ELSE [cur EXCEPT ![CounterOf(kind)] = cur[CounterOf(kind)] + 1]

\* asyncactionint(AsyncAction::printf), ::syscall and ::cat, the bases added
\* to the ids of printf, system and cat; the other records keep their action
\* in a field of its own.
asyncactionint(kind) ==
  CASE kind = "printf" -> 0
    [] kind = "system" -> 10000
    [] kind = "cat"    -> 20000
    [] OTHER           -> 0

\* The record of a call site with the id taken after the increment.
visitCallRecord_after_increment(cur, kind) ==
  IF CounterOf(kind) = "" \/ kind = "count" THEN <<>>
  ELSE << [kind |-> kind, id |-> cur[CounterOf(kind)] + 1,
           written |-> cur[CounterOf(kind)] + 1 + asyncactionint(kind)] >>

\* The id a call site writes into its record: the counter before the
\* increment, plus the action base for printf, system and cat.
visitCallRecord(cur, kind) ==
  IF CounterOf(kind) = "" \/ kind = "count" THEN <<>>
  ELSE << [kind |-> kind, id |-> cur[CounterOf(kind)],
           written |-> cur[CounterOf(kind)] + asyncactionint(kind)] >>

\* visit(Builtin) for argN: the location index handed to CreateUSDTReadArgument,
\* -1 when the argument is read from the registers of the context.
visitBuiltinArg(provider, usdt_index) ==
  IF provider = "usdt" THEN usdt_index ELSE -1

\* The statements of the body, lowered in order.
RECURSIVE lowerStmts(_, _, _, _)
lowerStmts(stmts, cur, provider, usdt_index) ==
  IF Len(stmts) = 0 THEN [ids |-> cur, calls |-> <<>>, usdt_args |-> <<>>]
  ELSE LET kind == Head(stmts)
           rest == lowerStmts(Tail(stmts), visitCallIds(cur, kind), provider, usdt_index)
       IN [ids |-> rest.ids,
           calls |-> visitCallRecord(cur, kind) \o rest.calls,
           usdt_args |-> (IF kind = "arg0"
                          THEN <<visitBuiltinArg(provider, usdt_index)>>
                          ELSE <<>>) \o rest.usdt_args]

\* generateProbe: one function is added to the module.  idsIn are the counters
\* when the call starts and cap is current_attach_point_.
generateProbe(idsIn, cap, full_func_id, section_name, expansion) ==
  LET probe == program[probe_i]
      next == getNextIndexForProbe(next_probe_index_, ProbeName(probe))
      low == lowerStmts(probe.stmts, idsIn,
                        probe.attach_points[cap].provider,
                        current_usdt_location_index_)
  IN /\ next_probe_index_' = next.table
     /\ ids' = low.ids
     /\ programs' = Append(programs,
          [name |-> section_name,
           section |-> getSectionNameForProbe(section_name, next.index),
           index |-> next.index,
           probe_name |-> ProbeName(probe),
           probe |-> probe_i,
           ap |-> cap,
           full_func_id |-> full_func_id,
           expansion |-> expansion,
           base |-> idsIn,
           calls |-> low.calls,
           usdt_args |-> low.usdt_args])

\* ----------------------------------------------------------- driver actions

CurProbe == program[probe_i]
CurAP == CurProbe.attach_points[current_attach_point_]

\* The test with every probe of several attach points expanded as well.
NeedExpansion_multi(probe) ==
  \/ probe.need_expansion
  \/ probe.attach_points[1].provider = "usdt"
  \/ Len(probe.attach_points) > 1

\* visit(Probe), the test at its head: all usdt probes need expansion.
NeedExpansion(probe) ==
  probe.need_expansion \/ probe.attach_points[1].provider = "usdt"

InitDriver ==
  /\ program \in Programs
  /\ pc = "program"
  /\ probe_i = 1
  /\ ap_i = 0
  /\ current_attach_point_ = 0
  /\ matches = <<>>
  /\ match = ""
  /\ probefull_ = ""
  /\ usdt_num_locations = 0
  /\ loc_i = 0
  /\ current_usdt_location_index_ = 0
  /\ ids = ZeroIds
  /\ starting = ZeroIds
  /\ next_probe_index_ = <<>>
  /\ programs = <<>>
  /\ resolver_log = <<>>
  /\ resolved = <<>>
  /\ delivered = <<>>
  /\ entry_ids = <<>>

\* The driver when another state machine of the module runs.
IdleDriver ==
  /\ program = <<>>
  /\ pc = "idle"
  /\ probe_i = 1
  /\ ap_i = 0
  /\ current_attach_point_ = 0
  /\ matches = <<>>
  /\ match = ""
  /\ probefull_ = ""
  /\ usdt_num_locations = 0
  /\ loc_i = 0
  /\ current_usdt_location_index_ = 0
  /\ ids = ZeroIds
  /\ starting = ZeroIds
  /\ next_probe_index_ = <<>>
  /\ programs = <<>>
  /\ resolver_log = <<>>
  /\ resolved = <<>>
  /\ delivered = <<>>
  /\ entry_ids = <<>>

\* visit(Probe) of a probe that needs no expansion: one program, named by the
\* probe; then add_probe and the return to visit(Program).
VisitProbeSingle ==
  /\ pc = "program"
  /\ probe_i <= Len(program)
  /\ ~NeedExpansion(CurProbe)
  /\ entry_ids' = Append(entry_ids, ids)
  /\ probefull_' = ProbeName(CurProbe)
  /\ generateProbe(ids, 1, ProbeName(CurProbe), ProbeName(CurProbe), FALSE)
  /\ current_attach_point_' = 0
  /\ probe_i' = probe_i + 1
  /\ UNCHANGED <<irVars, mapVars, aggVars, fnVars, ctxVars, restVars,
                 program, pc, ap_i, matches, match, usdt_num_locations, loc_i,
                 current_usdt_location_index_, starting, resolver_log, resolved, delivered>>

\* visit(Probe) of a probe that needs expansion, up to the attach point loop:
\* the counters are saved in the starting_* locals.
VisitProbeExpand ==
  /\ pc = "program"
  /\ probe_i <= Len(program)
  /\ NeedExpansion(CurProbe)
  /\ entry_ids' = Append(entry_ids, ids)
  /\ starting' = ids
  /\ current_attach_point_' = 1
  /\ ap_i' = 1
  /\ pc' = "attach"
  /\ UNCHANGED <<irVars, mapVars, aggVars, fnVars, ctxVars, restVars,
                 program, probe_i, matches, match, probefull_, usdt_num_locations,
                 loc_i, current_usdt_location_index_, ids, next_probe_index_,
                 programs, resolver_log, resolved, delivered>>

\* The attach point loop iterating the matches in the order they were inserted.
NextAttachPoint_insertion_order ==
  /\ pc = "attach"
  /\ ap_i <= Len(CurProbe.attach_points)
  /\ current_attach_point_' = ap_i
  /\ LET ap == CurProbe.attach_points[ap_i]
     IN IF ap.provider \in {"BEGIN", "END"}
        THEN /\ matches' = SetOrder({ap.provider})
             /\ UNCHANGED <<resolver_log, resolved, delivered>>
        ELSE \E order \in Orders(Universe(ap)) :
               /\ resolved' = order
               /\ matches' = order
               /\ resolver_log' = Append(resolver_log, <<probe_i, ap_i>>)
               /\ delivered' = Append(delivered, [names |-> Range(order)])
  /\ match' = ""
  /\ pc' = "match"
  /\ UNCHANGED <<irVars, mapVars, aggVars, fnVars, ctxVars, restVars,
                 program, probe_i, ap_i, probefull_, usdt_num_locations,
                 loc_i, current_usdt_location_index_, ids, starting,
                 next_probe_index_, programs, entry_ids>>

\* The head of the attach point loop: the matches of the attach point, BEGIN
\* and END matching themselves, any other asked of find_wildcard_matches.
NextAttachPoint ==
  /\ pc = "attach"
  /\ ap_i <= Len(CurProbe.attach_points)
  /\ current_attach_point_' = ap_i
  /\ LET ap == CurProbe.attach_points[ap_i]
     IN IF ap.provider \in {"BEGIN", "END"}
        THEN /\ matches' = SetOrder({ap.provider})
             /\ UNCHANGED <<resolver_log, resolved, delivered>>
        ELSE \E order \in Orders(Universe(ap)) :
               /\ resolved' = order
               /\ matches' = SetOrder(Range(order))
               /\ resolver_log' = Append(resolver_log, <<probe_i, ap_i>>)
               /\ delivered' = Append(delivered, [names |-> Range(order)])
  /\ match' = ""
  /\ pc' = "match"
  /\ UNCHANGED <<irVars, mapVars, aggVars, fnVars, ctxVars, restVars,
                 program, probe_i, ap_i, probefull_, usdt_num_locations,
                 loc_i, current_usdt_location_index_, ids, starting,
                 next_probe_index_, programs, entry_ids>>

\* One match of an attach point that is not usdt: reset_ids, the resolved
\* name, one program.
NextMatch ==
  /\ pc = "match"
  /\ matches # <<>>
  /\ CurAP.provider # "usdt"
  /\ match' = Head(matches)
  /\ matches' = Tail(matches)
  /\ probefull_' = APName(CurAP.provider, Head(matches))
  /\ generateProbe(reset_ids(ids, starting), current_attach_point_,
                   Head(matches), APName(CurAP.provider, Head(matches)), TRUE)
  /\ UNCHANGED <<irVars, mapVars, aggVars, fnVars, ctxVars, restVars,
                 program, pc, probe_i, ap_i, current_attach_point_,
                 usdt_num_locations, loc_i, current_usdt_location_index_,
                 starting, resolver_log, resolved, delivered, entry_ids>>

\* One match of a usdt attach point, up to the location loop: reset_ids, the
\* resolved name, the metadata USDTHelper::find reports.
BeginUsdtMatch ==
  /\ pc = "match"
  /\ matches # <<>>
  /\ CurAP.provider = "usdt"
  /\ match' = Head(matches)
  /\ matches' = Tail(matches)
  /\ ids' = reset_ids(ids, starting)
  /\ probefull_' = APName(CurAP.provider, Head(matches))
  /\ \E k \in 0..MaxLocations :
       /\ usdt_num_locations' = k
       /\ delivered' = Append(delivered, [locations |-> k])
  /\ current_usdt_location_index_' = 0
  /\ loc_i' = 0
  /\ pc' = "loc"
  /\ UNCHANGED <<irVars, mapVars, aggVars, fnVars, ctxVars, restVars,
                 program, probe_i, ap_i, current_attach_point_, starting,
                 next_probe_index_, programs, resolver_log, resolved, entry_ids>>

\* USDTHelper::find has no value: std::runtime_error leaves the generator.
UsdtNotFound ==
  /\ pc = "match"
  /\ matches # <<>>
  /\ CurAP.provider = "usdt"
  /\ match' = Head(matches)
  /\ ids' = reset_ids(ids, starting)
  /\ probefull_' = APName(CurAP.provider, Head(matches))
  /\ pc' = "error"
  /\ UNCHANGED <<irVars, mapVars, aggVars, fnVars, ctxVars, restVars,
                 program, probe_i, ap_i, current_attach_point_, matches,
                 usdt_num_locations, loc_i, current_usdt_location_index_, starting,
                 next_probe_index_, programs, resolver_log, resolved, delivered, entry_ids>>

\* The location loop without the increment of current_usdt_location_index_.
UsdtLocation_no_increment ==
  /\ pc = "loc"
  /\ loc_i < usdt_num_locations
  /\ generateProbe(reset_ids(ids, starting), current_attach_point_,
                   match \o "_loc" \o ToString(loc_i),
                   probefull_ \o "_loc" \o ToString(loc_i), TRUE)
  /\ loc_i' = loc_i + 1
  /\ UNCHANGED <<irVars, mapVars, aggVars, fnVars, ctxVars, restVars,
                 program, pc, probe_i, ap_i, current_attach_point_, matches, match,
                 probefull_, usdt_num_locations, current_usdt_location_index_,
                 starting, resolver_log, resolved, delivered, entry_ids>>

\* One iteration of the location loop.
UsdtLocation ==
  /\ pc = "loc"
  /\ loc_i < usdt_num_locations
  /\ generateProbe(reset_ids(ids, starting), current_attach_point_,
                   match \o "_loc" \o ToString(loc_i),
                   probefull_ \o "_loc" \o ToString(loc_i), TRUE)
  /\ current_usdt_location_index_' = current_usdt_location_index_ + 1
  /\ loc_i' = loc_i + 1
  /\ UNCHANGED <<irVars, mapVars, aggVars, fnVars, ctxVars, restVars,
                 program, pc, probe_i, ap_i, current_attach_point_, matches, match,
                 probefull_, usdt_num_locations, starting, resolver_log, resolved, delivered,
                 entry_ids>>

\* The location loop ends.
EndUsdtMatch ==
  /\ pc = "loc"
  /\ loc_i >= usdt_num_locations
  /\ pc' = "match"
  /\ UNCHANGED <<irVars, mapVars, aggVars, fnVars, ctxVars, restVars,
                 program, probe_i, ap_i, current_attach_point_, matches, match,
                 probefull_, usdt_num_locations, loc_i,
                 current_usdt_location_index_, ids, starting, next_probe_index_,
                 programs, resolver_log, resolved, delivered, entry_ids>>

\* The match loop ends: the next attach point.
EndAttachPoint ==
  /\ pc = "match"
  /\ matches = <<>>
  /\ ap_i' = ap_i + 1
  /\ pc' = "attach"
  /\ UNCHANGED <<irVars, mapVars, aggVars, fnVars, ctxVars, restVars,
                 program, probe_i, current_attach_point_, matches, match,
                 probefull_, usdt_num_locations, loc_i,
                 current_usdt_location_index_, ids, starting, next_probe_index_,
                 programs, resolver_log, resolved, delivered, entry_ids>>

\* The attach point loop ends: add_probe, current_attach_point_ = nullptr.
EndProbe ==
  /\ pc = "attach"
  /\ ap_i > Len(CurProbe.attach_points)
  /\ current_attach_point_' = 0
  /\ probe_i' = probe_i + 1
  /\ pc' = "program"
  /\ UNCHANGED <<irVars, mapVars, aggVars, fnVars, ctxVars, restVars,
                 program, ap_i, matches, match, probefull_, usdt_num_locations,
                 loc_i, current_usdt_location_index_, ids, starting,
                 next_probe_index_, programs, resolver_log, resolved, delivered, entry_ids>>

\* ---------------------------------------------------- lowering to basic blocks

\* Expressions of integer type.  A leaf stands for any expression without
\* control flow of its own (a builtin, a map read, a call): one value, computed
\* where it is lowered.  Every node has an id, by which the instruction that
\* computes its value is known.
Leaf(id) == [e |-> "leaf", id |-> id, l |-> <<>>, r |-> <<>>]
LAnd(id, l, r) == [e |-> "and", id |-> id, l |-> l, r |-> r]
LOr(id, l, r) == [e |-> "or", id |-> id, l |-> l, r |-> r]
NoExpr == [e |-> "none", id |-> 0, l |-> <<>>, r |-> <<>>]

\* Statements.  Ids follow the order of the source text.
SCount(id) == [s |-> "count", id |-> id, e |-> NoExpr, stmts |-> <<>>,
               has_else |-> FALSE, else_stmts |-> <<>>]
SPrintf(id) == [s |-> "printf", id |-> id, e |-> NoExpr, stmts |-> <<>>,
                has_else |-> FALSE, else_stmts |-> <<>>]
SExit(id) == [s |-> "exit", id |-> id, e |-> NoExpr, stmts |-> <<>>,
              has_else |-> FALSE, else_stmts |-> <<>>]
SReturn(id) == [s |-> "return", id |-> id, e |-> NoExpr, stmts |-> <<>>,
                has_else |-> FALSE, else_stmts |-> <<>>]
SExpr(id, e) == [s |-> "expr", id |-> id, e |-> e, stmts |-> <<>>,
                 has_else |-> FALSE, else_stmts |-> <<>>]
SAssign(id, e) == [s |-> "assign", id |-> id, e |-> e, stmts |-> <<>>,
                   has_else |-> FALSE, else_stmts |-> <<>>]
SIf(id, e, stmts) == [s |-> "if", id |-> id, e |-> e, stmts |-> stmts,
                      has_else |-> FALSE, else_stmts |-> <<>>]
SIfElse(id, e, stmts, else_stmts) ==
  [s |-> "if", id |-> id, e |-> e, stmts |-> stmts,
   has_else |-> TRUE, else_stmts |-> else_stmts]

\* An instruction: op, three integer operands, and the name LLVM would show.
Inst(op, a, b, c, note) == [op |-> op, a |-> a, b |-> b, c |-> c, note |-> note]

Terminators == {"br", "condbr", "ret"}

\* The builder b_ with the function it is building: the blocks, the insertion
\* block, the next free value and stack slot numbers, and expr_ (0: nullptr).
NewBuilder == [blocks |-> <<>>, cur |-> 0, nreg |-> 1, nslot |-> 1, expr |-> 0]

\* BasicBlock::Create(context, name, parent): the block is appended.
BasicBlockCreate(b, name) ==
  [b EXCEPT !.blocks = Append(@, [name |-> name, insts |-> <<>>])]

SetInsertPoint(b, k) == [b EXCEPT !.cur = k]

\* Any b_.Create* call: the instruction is appended at the insertion point.
Emit(b, inst) == [b EXCEPT !.blocks[b.cur].insts = Append(@, inst)]

\* An instruction with a result: it takes the next value number, which becomes expr.
EmitValue(b, op, src, c, note) ==
  [Emit(b, Inst(op, b.nreg, src, c, note)) EXCEPT !.nreg = @ + 1, !.expr = b.nreg]

\* b_.CreateAllocaBPF: the slot taken is b.nslot.
CreateAllocaBPF(b, note) ==
  [Emit(b, Inst("alloca", b.nslot, 0, 0, note)) EXCEPT !.nslot = @ + 1]

CreateLifetimeEnd(b, slot) == Emit(b, Inst("lifetime_end", slot, 0, 0, ""))

\* A return with a constant different from 0.
CreateRet0_one(b, site) == Emit(b, Inst("ret", 1, 64, 0, site))

\* b_.CreateRet(ConstantInt::get(module_->getContext(), APInt(64, 0))).
CreateRet0(b, site) == Emit(b, Inst("ret", 0, 64, 0, site))

\* b_.CreateCondBr(b_.CreateICmpNE(expr_, 0, note), t, f).
CondBrNE(b, note, t, f) ==
  Emit(EmitValue(b, "icmp_ne0", b.expr, 0, note), Inst("condbr", b.nreg, t, f, ""))

\* At block: b_.CreateStore(b_.getInt64(v), slot); b_.CreateBr(target).
StoreBr(b, block, slot, v, target) ==
  Emit(Emit(SetInsertPoint(b, block), Inst("store", slot, v, 0, "")),
       Inst("br", target, 0, 0, ""))

\* At block: b_.CreateLoad(slot), the value of the expression node.
LoadAt(b, block, slot, node) ==
  EmitValue(SetInsertPoint(b, block), "load", slot, node, "")

RECURSIVE visitExpr(_, _)

\* createLogicalAnd with the targets of the branch on the left operand swapped.
createLogicalAnd_swapped(b, binop) ==
  LET n == Len(b.blocks)
      result == b.nslot
  IN LoadAt(
       StoreBr(
         StoreBr(
           CondBrNE(
             visitExpr(
               SetInsertPoint(
                 CondBrNE(
                   visitExpr(
                     CreateAllocaBPF(
                       BasicBlockCreate(BasicBlockCreate(BasicBlockCreate(
                         BasicBlockCreate(b, "&&_lhs_true"), "&&_true"),
                         "&&_false"), "&&_merge"),
                       "&&_result"),
                     binop.l),
                   "lhs_true_cond", n + 3, n + 1),
                 n + 1),
               binop.r),
             "rhs_true_cond", n + 2, n + 3),
           n + 2, result, 1, n + 4),
         n + 3, result, 0, n + 4),
       n + 4, result, binop.id)

\* createLogicalAnd: the value of l && r.  The blocks are, in the order of
\* their creation, lhs_true (n+1), true (n+2), false (n+3) and merge (n+4).
createLogicalAnd(b, binop) ==
  LET n == Len(b.blocks)
      result == b.nslot
  IN LoadAt(
       StoreBr(
         StoreBr(
           CondBrNE(
             visitExpr(
               SetInsertPoint(
                 CondBrNE(
                   visitExpr(
                     CreateAllocaBPF(
                       BasicBlockCreate(BasicBlockCreate(BasicBlockCreate(
                         BasicBlockCreate(b, "&&_lhs_true"), "&&_true"),
                         "&&_false"), "&&_merge"),
                       "&&_result"),
                     binop.l),
                   "lhs_true_cond", n + 1, n + 3),
                 n + 1),
               binop.r),
             "rhs_true_cond", n + 2, n + 3),
           n + 2, result, 1, n + 4),
         n + 3, result, 0, n + 4),
       n + 4, result, binop.id)

\* createLogicalOr: the value of l || r.  The blocks are, in the order of
\* their creation, lhs_false (n+1), false (n+2), true (n+3) and merge (n+4).
createLogicalOr(b, binop) ==
  LET n == Len(b.blocks)
      result == b.nslot
  IN LoadAt(
       StoreBr(
         StoreBr(
           CondBrNE(
             visitExpr(
               SetInsertPoint(
                 CondBrNE(
                   visitExpr(
                     CreateAllocaBPF(
                       BasicBlockCreate(BasicBlockCreate(BasicBlockCreate(
                         BasicBlockCreate(b, "||_lhs_false"), "||_false"),
                         "||_true"), "||_merge"),
                       "||_result"),
                     binop.l),
                   "lhs_true_cond", n + 3, n + 1),
                 n + 1),
               binop.r),
             "rhs_true_cond", n + 3, n + 2),
           n + 2, result, 0, n + 4),
         n + 3, result, 1, n + 4),
       n + 4, result, binop.id)

\* visit(Binop) for && and ||, and the visit of any other integer expression.
visitExpr(b, expr) ==
  IF expr.e = "and" THEN createLogicalAnd(b, expr)
  ELSE IF expr.e = "or" THEN createLogicalOr(b, expr)
  ELSE EmitValue(b, "eval", 0, expr.id, "")

\* getMapKey for a map without key: a slot holding 0.  The slot is b.nslot.
getMapKey(b) ==
  Emit(CreateAllocaBPF(b, "key"), Inst("store", b.nslot, 0, 0, ""))

\* The end of an aggregation or assignment: both lifetimes end, expr_ as given.
EndKeyVal(b, key, val, expr) ==
  [CreateLifetimeEnd(CreateLifetimeEnd(b, key), val) EXCEPT !.expr = expr]

\* visit(Call) for count: key is slot b.nslot, oldval value b.nreg, newval the
\* slot after key.
visitCount(b, call) ==
  EndKeyVal(
    Emit(
      Emit(
        CreateAllocaBPF(
          EmitValue(getMapKey(b), "map_lookup", b.nslot, call.id, ""),
          "val"),
        Inst("store_add1", b.nslot + 1, b.nreg, 0, "")),
      Inst("map_update", b.nslot, b.nslot + 1, call.id, "")),
    b.nslot, b.nslot + 1, 0)

\* An async record: the slot b.nslot is allocated, filled, handed to
\* perf_event_output and ended; expr_ = nullptr.
PerfRecord(b, node, name, note) ==
  [CreateLifetimeEnd(
     Emit(
       Emit(CreateAllocaBPF(b, name), Inst("store", b.nslot, 0, 0, "")),
       Inst("perf_output", b.nslot, 0, node, note)),
     b.nslot)
   EXCEPT !.expr = 0]

\* visit(Call) for printf: createFormatStringCall without arguments.
visitPrintf(b, call) == PerfRecord(b, call.id, "printf_args", "printf")

\* A fresh block for the instructions that follow an unconditional terminator.
DeadBlock(b, name) ==
  SetInsertPoint(BasicBlockCreate(b, name), Len(b.blocks) + 1)

\* visit(Call) for exit without the return after the record.
visitExit_no_return(b, call) == PerfRecord(b, call.id, "perfdata", "exit")

\* visit(Call) for exit.
visitExit(b, call) ==
  DeadBlock(CreateRet0(PerfRecord(b, call.id, "perfdata", "exit"), "exit"),
            "deadcode")

\* visit(Jump) for return.
visitJump(b, jump) == DeadBlock(CreateRet0(b, "return"), "unreach")

\* visit(AssignMapStatement) after the expression: b.expr is its value, key the
\* slot b.nslot, val the slot after it.
AssignMapTail(b, node) ==
  EndKeyVal(
    Emit(
      Emit(CreateAllocaBPF(getMapKey(b), "val"),
           Inst("store_reg", b.nslot + 1, b.expr, 0, "")),
      Inst("map_update", b.nslot, b.nslot + 1, node, "")),
    b.nslot, b.nslot + 1, b.expr)

\* visit(AssignMapStatement) of an integer expression to a map without key.
visitAssignMapStatement(b, assignment) ==
  AssignMapTail(visitExpr(b, assignment.e), assignment.id)

RECURSIVE visitStmts(_, _)

\* The statements of one branch, lowered at block, and the branch to if_end.
IfBranch(b, block, stmts, if_end) ==
  SetInsertPoint(
    Emit(visitStmts(SetInsertPoint(b, block), stmts), Inst("br", if_end, 0, 0, "")),
    if_end)

\* visit(If) after the condition: else_body, when there is one, is created now.
IfTail(b, if_block, if_true, if_end) ==
  IF if_block.has_else
  THEN IfBranch(
         IfBranch(
           CondBrNE(BasicBlockCreate(b, "else_body"), "true_cond",
                    if_true, Len(b.blocks) + 1),
           if_true, if_block.stmts, if_end),
         Len(b.blocks) + 1, if_block.else_stmts, if_end)
  ELSE IfBranch(CondBrNE(b, "true_cond", if_true, if_end),
                if_true, if_block.stmts, if_end)

\* visit(If): if_body and if_end are created first.
visitIf(b, if_block) ==
  IfTail(visitExpr(BasicBlockCreate(BasicBlockCreate(b, "if_body"), "if_end"),
                   if_block.e),
         if_block, Len(b.blocks) + 1, Len(b.blocks) + 2)

\* accept(stmt): the visit of one statement.
visitStmt(b, stmt) ==
  CASE stmt.s = "count"  -> visitCount(b, stmt)
    [] stmt.s = "printf" -> visitPrintf(b, stmt)
    [] stmt.s = "exit"   -> visitExit(b, stmt)
    [] stmt.s = "return" -> visitJump(b, stmt)
    [] stmt.s = "expr"   -> visitExpr(b, stmt.e)
    [] stmt.s = "assign" -> visitAssignMapStatement(b, stmt)
    [] stmt.s = "if"     -> visitIf(b, stmt)

visitStmts(b, stmts) ==
  IF Len(stmts) = 0 THEN b
  ELSE visitStmts(visitStmt(b, Head(stmts)), Tail(stmts))

\* The branch of the predicate with its targets exchanged.
PredicateTail_inverted(b, pred_false_block, pred_true_block) ==
  SetInsertPoint(
    CreateRet0(
      SetInsertPoint(
        Emit(EmitValue(EmitValue(b, "zext64", b.expr, 0, ""),
                       "icmp_eq0", b.nreg, 0, "predcond"),
             Inst("condbr", b.nreg + 1, pred_true_block, pred_false_block, "")),
        pred_false_block),
      "pred_false"),
    pred_true_block)

\* visit(Predicate) after the expression: the zero extension, the comparison
\* with 0, the branch, and the return of pred_false.
PredicateTail(b, pred_false_block, pred_true_block) ==
  SetInsertPoint(
    CreateRet0(
      SetInsertPoint(
        Emit(EmitValue(EmitValue(b, "zext64", b.expr, 0, ""),
                       "icmp_eq0", b.nreg, 0, "predcond"),
             Inst("condbr", b.nreg + 1, pred_false_block, pred_true_block, "")),
        pred_false_block),
      "pred_false"),
    pred_true_block)

\* visit(Predicate).
visitPredicate(b, pred) ==
  PredicateTail(
    visitExpr(BasicBlockCreate(BasicBlockCreate(b, "pred_false"), "pred_true"), pred),
    Len(b.blocks) + 1, Len(b.blocks) + 2)

\* generateProbe: the function built for a probe.
lowerProbe(probe) ==
  CreateRet0(
    visitStmts(
      IF probe.has_pred
      THEN visitPredicate(SetInsertPoint(BasicBlockCreate(NewBuilder, "entry"), 1),
                          probe.pred)
      ELSE SetInsertPoint(BasicBlockCreate(NewBuilder, "entry"), 1),
      probe.stmts),
    "end")

\* ------------------------------------------------------------ IR inputs

\* Values a leaf expression may have at run time: 0..MaxLeafValue.
MaxLeafValue == 2

Probe(has_pred, pred, stmts) ==
  [has_pred |-> has_pred, pred |-> pred, stmts |-> stmts]

\* The probes lowered: predicates, nested && and ||, exit and return at the
\* top of the body and inside if/else, with statements after them.
IRProbes ==
  { Probe(FALSE, NoExpr, << SAssign(1, LAnd(10, Leaf(11), Leaf(12))) >>),
    Probe(FALSE, NoExpr, << SAssign(1, LOr(10, Leaf(11), Leaf(12))) >>),
    Probe(FALSE, NoExpr,
          << SAssign(1, LAnd(10, LOr(13, Leaf(11), Leaf(12)), Leaf(14))) >>),
    Probe(FALSE, NoExpr,
          << SAssign(1, LOr(10, Leaf(11), LAnd(13, Leaf(12), Leaf(14)))) >>),
    Probe(TRUE, Leaf(11), << SCount(1), SPrintf(2) >>),
    Probe(TRUE, LAnd(10, Leaf(11), Leaf(12)), << SCount(1), SReturn(2), SPrintf(3) >>),
    Probe(FALSE, NoExpr, << SCount(1), SExit(2), SCount(3), SPrintf(4) >>),
    Probe(FALSE, NoExpr,
          << SExit(1), SIf(2, Leaf(11), << SCount(3) >>), SPrintf(4) >>),
    Probe(FALSE, NoExpr,
          << SIf(1, Leaf(11), << SPrintf(2), SExit(3), SCount(4) >>), SCount(5) >>),
    Probe(TRUE, Leaf(11),
          << SIfElse(1, LOr(10, Leaf(12), Leaf(13)),
                     << SExit(2), SPrintf(3) >>, << SReturn(4), SCount(5) >>),
             SPrintf(6) >>),
    Probe(FALSE, NoExpr,
          << SExpr(1, LAnd(10, Leaf(11), Leaf(12))),
             SIfElse(2, Leaf(13), << SCount(3) >>, << SExit(4) >>),
             SAssign(5, Leaf(14)) >>) }

\* ------------------------------------------------------------ IR actions

\* The aggregations when another state machine runs.
IdleAgg ==
  /\ agg_fn = ""
  /\ agg_slots = <<>>
  /\ agg_cpu = <<>>
  /\ agg_log = <<>>

\* The first value of the loop variable of createLog2Function.
Log2FirstStep == 4

\* The stack slots of a helper before its entry block has run.
FnNoMem == [n |-> <<>>, result |-> <<>>]

\* The helpers when another state machine runs.
IdleFn ==
  /\ fn_pc = "idle"
  /\ fn_args = <<>>
  /\ fn_mem = FnNoMem
  /\ fn_i = Log2FirstStep
  /\ fn_ret = <<>>

\* The lowering of context reads when another state machine runs.
IdleCtx ==
  /\ ctx_insts = <<>>
  /\ ctx_log = <<>>

\* The values of a call of str or buf before anything has run.
NoCallValues == [proposed |-> <<>>, strlen |-> <<>>, length |-> <<>>,
                 len_field |-> <<>>, size |-> <<>>, dst_bytes |-> 0]

\* The code of str and buf when another state machine runs.
IdleCall ==
  /\ call_in = <<>>
  /\ call_pc = "idle"
  /\ call_val = NoCallValues

\* The walk when another state machine runs.
IdleRel ==
  /\ rel_slot = 0
  /\ rel_stack = <<>>
  /\ rel_log = <<>>

\* The lowering of loops when another state machine runs.
IdleLoop ==
  /\ loop_b = <<>>
  /\ loops_ = <<>>
  /\ loop_frames = <<>>
  /\ loop_log = <<>>

\* The generator as the constructor leaves it.
IdleGen ==
  /\ state_ = "INIT"
  /\ module_ = TRUE
  /\ gen_halted = FALSE
  /\ gen_log = <<>>

\* The state machines defined after SpecCtx when another state machine runs.
IdleRest == IdleCall /\ IdleRel /\ IdleLoop /\ IdleGen

\* The map and the CPUs when another state machine runs.
IdleMap ==
  /\ map_slots = <<>>
  /\ map_init = <<>>
  /\ cpu = <<>>
  /\ started = 0
  /\ completed = <<>>
  /\ overlapped = <<>>

InitIR ==
  /\ IdleDriver
  /\ IdleMap
  /\ IdleAgg
  /\ IdleFn
  /\ IdleCtx
  /\ IdleRest
  /\ ir_probe \in IRProbes
  /\ ir_fn = <<>>
  /\ ir_pc = "lower"
  /\ rt_block = 0
  /\ rt_ip = 0
  /\ regs = <<>>
  /\ mem = <<>>
  /\ trace = <<>>
  /\ retval = -1
  /\ ret_site = ""

\* The lowering and the emitted program when another state machine runs.
IdleIR ==
  /\ ir_probe = Probe(FALSE, NoExpr, <<>>)
  /\ ir_fn = <<>>
  /\ ir_pc = "idle"
  /\ rt_block = 0
  /\ rt_ip = 0
  /\ regs = <<>>
  /\ mem = <<>>
  /\ trace = <<>>
  /\ retval = -1
  /\ ret_site = ""

\* generateProbe builds the function; the program is then attached and fires:
\* it starts at the first instruction of the entry block.
Lower ==
  /\ ir_pc = "lower"
  /\ LET b == lowerProbe(ir_probe)
     IN /\ ir_fn' = b.blocks
        /\ regs' = [k \in 1..(b.nreg - 1) |-> -1]
        /\ mem' = [k \in 1..(b.nslot - 1) |-> -1]
  /\ ir_pc' = "run"
  /\ rt_block' = 1
  /\ rt_ip' = 1
  /\ UNCHANGED <<drvVars, mapVars, aggVars, fnVars, ctxVars, restVars,
                 ir_probe, trace, retval, ret_site>>

AtInst == ir_pc = "run" /\ rt_ip <= Len(ir_fn[rt_block].insts)
CurInst == ir_fn[rt_block].insts[rt_ip]
Event(ev, node, v) == [ev |-> ev, node |-> node, v |-> v]

\* A leaf expression is evaluated: it has some value.
ExecEval ==
  /\ AtInst
  /\ CurInst.op = "eval"
  /\ \E v \in 0..MaxLeafValue :
       /\ regs' = [regs EXCEPT ![CurInst.a] = v]
       /\ trace' = Append(trace, Event("value", CurInst.c, v))
  /\ rt_ip' = rt_ip + 1
  /\ UNCHANGED <<drvVars, mapVars, aggVars, fnVars, ctxVars, restVars,
                 ir_probe, ir_fn, ir_pc, rt_block, mem, retval, ret_site>>

\* alloca, store, load, lifetime end: the stack slots.  The load at the merge
\* block of && and || produces the value of the expression.
ExecMem ==
  /\ AtInst
  /\ CurInst.op \in {"alloca", "store", "store_reg", "store_add1", "load",
                     "lifetime_end"}
  /\ mem' = CASE CurInst.op = "store" -> [mem EXCEPT ![CurInst.a] = CurInst.b]
              [] CurInst.op = "store_reg" ->
                   [mem EXCEPT ![CurInst.a] = regs[CurInst.b]]
              [] CurInst.op = "store_add1" ->
                   [mem EXCEPT ![CurInst.a] = regs[CurInst.b] + 1]
              [] CurInst.op \in {"alloca", "lifetime_end"} ->
                   [mem EXCEPT ![CurInst.a] = -1]
              [] OTHER -> mem
  /\ regs' = IF CurInst.op = "load"
             THEN [regs EXCEPT ![CurInst.a] = mem[CurInst.b]] ELSE regs
  /\ trace' = IF CurInst.op = "load"
              THEN Append(trace, Event("value", CurInst.c, mem[CurInst.b]))
              ELSE trace
  /\ rt_ip' = rt_ip + 1
  /\ UNCHANGED <<drvVars, mapVars, aggVars, fnVars, ctxVars, restVars,
                 ir_probe, ir_fn, ir_pc, rt_block, retval, ret_site>>

\* Comparisons with zero and the zero extension.
ExecICmp ==
  /\ AtInst
  /\ CurInst.op \in {"icmp_ne0", "icmp_eq0", "zext64"}
  /\ regs' = [regs EXCEPT ![CurInst.a] =
                CASE CurInst.op = "icmp_ne0" -> IF regs[CurInst.b] # 0 THEN 1 ELSE 0
                  [] CurInst.op = "icmp_eq0" -> IF regs[CurInst.b] = 0 THEN 1 ELSE 0
                  [] OTHER -> regs[CurInst.b]]
  /\ rt_ip' = rt_ip + 1
  /\ UNCHANGED <<drvVars, mapVars, aggVars, fnVars, ctxVars, restVars,
                 ir_probe, ir_fn, ir_pc, rt_block, mem, trace, retval,
                 ret_site>>

\* Helper calls: map lookup (the slot is absent: 0), map update, perf event output.
ExecHelper ==
  /\ AtInst
  /\ CurInst.op \in {"map_lookup", "map_update", "perf_output"}
  /\ regs' = IF CurInst.op = "map_lookup"
             THEN [regs EXCEPT ![CurInst.a] = 0] ELSE regs
  /\ trace' = Append(trace,
       CASE CurInst.op = "map_update" -> Event("map_update", CurInst.c, mem[CurInst.b])
         [] CurInst.op = "map_lookup" -> Event("map_lookup", CurInst.c, 0)
         [] OTHER -> Event(IF CurInst.note = "exit" THEN "exit" ELSE "perf_output",
                           CurInst.c, 0))
  /\ rt_ip' = rt_ip + 1
  /\ UNCHANGED <<drvVars, mapVars, aggVars, fnVars, ctxVars, restVars,
                 ir_probe, ir_fn, ir_pc, rt_block, mem, retval, ret_site>>

\* br and condbr.
ExecBr ==
  /\ AtInst
  /\ CurInst.op \in {"br", "condbr"}
  /\ rt_block' = IF CurInst.op = "br" THEN CurInst.a
                 ELSE IF regs[CurInst.a] # 0 THEN CurInst.b ELSE CurInst.c
  /\ rt_ip' = 1
  /\ UNCHANGED <<drvVars, mapVars, aggVars, fnVars, ctxVars, restVars,
                 ir_probe, ir_fn, ir_pc, regs, mem, trace, retval, ret_site>>

\* ret: the program is over.
ExecRet ==
  /\ AtInst
  /\ CurInst.op = "ret"
  /\ retval' = CurInst.a
  /\ ret_site' = CurInst.note
  /\ ir_pc' = "returned"
  /\ UNCHANGED <<drvVars, mapVars, aggVars, fnVars, ctxVars, restVars,
                 ir_probe, ir_fn, rt_block, rt_ip, regs, mem, trace>>

NextIR == Lower \/ ExecEval \/ ExecMem \/ ExecICmp \/ ExecHelper \/ ExecBr \/ ExecRet

SpecIR == InitIR /\ [][NextIR]_vars

\* ------------------------------------------------- the map and the CPUs

\* Map values are unsigned integers of WordBits bits, kept as four limbs, the
\* most significant first.
WordBits == 64
ZeroWord == <<0, 0, 0, 0>>
LimbBase == 2 ^ (WordBits \div Len(ZeroWord))
MaxWord == [i \in DOMAIN ZeroWord |-> LimbBase - 1]
NatWord(n) == [ZeroWord EXCEPT ![Len(ZeroWord)] = n]

\* A slot no update has written yet.
Absent == <<>>

Cpus == 1..NumCpus
Keys == {1, 2}

\* w + 1 from limb i upwards, the carry out of the first limb being dropped.
RECURSIVE Carry(_, _)
Carry(w, i) ==
  IF i = 0 THEN w
  ELSE IF w[i] + 1 < LimbBase THEN [w EXCEPT ![i] = @ + 1]
  ELSE Carry([w EXCEPT ![i] = 0], i - 1)

\* b_.CreateMapLookupElem: the value of the slot, 0 when the slot is absent.
CreateMapLookupElem(m, key) ==
  IF key \notin DOMAIN m THEN ZeroWord
  ELSE IF m[key] = Absent THEN ZeroWord ELSE m[key]

\* b_.CreateMapUpdateElem: the slot takes the value.
CreateMapUpdateElem(m, key, val) ==
  [k \in DOMAIN m \cup {key} |-> IF k = key THEN val ELSE m[k]]

\* The value count() stores without the addition.
countNewval_no_add(oldval) == oldval

\* The value count() stores with the addition made twice.
countNewval_twice(oldval) == Carry(Carry(oldval, Len(oldval)), Len(oldval))

\* b_.CreateAdd(oldval, b_.getInt64(1)).
countNewval(oldval) == Carry(oldval, Len(oldval))

CpuIdle == [at |-> "idle", key |-> 0, oldval |-> ZeroWord]

\* The slots a map may hold when the probes start to fire.
StartValues == {Absent, NatWord(LimbBase - 1), MaxWord}

InitMap ==
  /\ IdleDriver
  /\ IdleIR
  /\ IdleAgg
  /\ IdleFn
  /\ IdleCtx
  /\ IdleRest
  /\ map_slots \in [Keys -> StartValues]
  /\ map_init = map_slots
  /\ cpu = [c \in Cpus |-> CpuIdle]
  /\ started = 0
  /\ completed = [k \in Keys |-> 0]
  /\ overlapped = [k \in Keys |-> FALSE]

InFlight(k) == { c \in Cpus : cpu[c].at = "looked_up" /\ cpu[c].key = k }

\* count() on CPU c, first part: getMapKey and the map lookup.
CountLookup(c, k) ==
  /\ cpu[c].at = "idle"
  /\ started < MaxInvocations
  /\ cpu' = [cpu EXCEPT ![c] = [at |-> "looked_up", key |-> k,
                                oldval |-> CreateMapLookupElem(map_slots, k)]]
  /\ started' = started + 1
  /\ overlapped' = [overlapped EXCEPT ![k] = @ \/ InFlight(k) # {}]
  /\ UNCHANGED <<drvVars, irVars, aggVars, fnVars, ctxVars, restVars,
                 map_slots, map_init, completed>>

\* count() on CPU c, second part: the addition, the map update, the end of the
\* lifetimes.
CountUpdate(c) ==
  /\ cpu[c].at = "looked_up"
  /\ map_slots' = CreateMapUpdateElem(map_slots, cpu[c].key, countNewval(cpu[c].oldval))
  /\ completed' = [completed EXCEPT ![cpu[c].key] = @ + 1]
  /\ cpu' = [cpu EXCEPT ![c] = CpuIdle]
  /\ UNCHANGED <<drvVars, irVars, aggVars, fnVars, ctxVars, restVars,
                 map_init, started, overlapped>>

NextMap ==
  \/ \E c \in Cpus, k \in Keys : CountLookup(c, k)
  \/ \E c \in Cpus : CountUpdate(c)

SpecMap == InitMap /\ [][NextMap]_vars

\* ------------------------------------------------- 64-bit arithmetic

\* The word w with every limb computed: the result of an operation is a
\* tuple of numbers, never a rule that computes a limb when it is asked for.
Settle(w) == SubSeq(w, 1, Len(ZeroWord))

\* 2^e as a word, 0 <= e < WordBits.
Pow2Word(e) ==
  Settle([i \in DOMAIN ZeroWord |->
            IF i = Len(ZeroWord) - (e \div (WordBits \div Len(ZeroWord)))
            THEN 2 ^ (e % (WordBits \div Len(ZeroWord))) ELSE 0])

\* The carry that the limbs below limb i hand to limb i when a and b are added.
RECURSIVE CarryInto(_, _, _)
CarryInto(a, b, i) ==
  IF i = Len(a) THEN 0
  ELSE (a[i + 1] + b[i + 1] + CarryInto(a, b, i + 1)) \div LimbBase

\* b_.CreateAdd: a + b modulo 2^WordBits.
CreateAdd(a, b) ==
  Settle([i \in DOMAIN a |-> (a[i] + b[i] + CarryInto(a, b, i)) % LimbBase])

\* b_.CreateNot: the complement of every bit.
CreateNot(a) == Settle([i \in DOMAIN a |-> LimbBase - 1 - a[i]])

\* b_.CreateSub: a - b modulo 2^WordBits.
CreateSub(a, b) == CreateAdd(CreateAdd(a, CreateNot(b)), NatWord(1))

\* a < b, the words read as unsigned numbers, from limb i on.
RECURSIVE ULessFrom(_, _, _)
ULessFrom(a, b, i) ==
  /\ i <= Len(a)
  /\ \/ a[i] < b[i]
     \/ a[i] = b[i] /\ ULessFrom(a, b, i + 1)

ICmpULT(a, b) == ULessFrom(a, b, 1)
ICmpUGT(a, b) == ULessFrom(b, a, 1)

\* The sign bit of a word read as a two's complement number.
IsNegative(a) == a[1] >= LimbBase \div 2

\* b_.CreateICmpSLT, b_.CreateICmpSGT, b_.CreateICmpSGE.
ICmpSLT(a, b) ==
  IF IsNegative(a) # IsNegative(b) THEN IsNegative(a) ELSE ICmpULT(a, b)
ICmpSGT(a, b) == ICmpSLT(b, a)
ICmpSGE(a, b) == ~ICmpSLT(a, b)

\* b_.CreateLShr by s bits, s at most the width of a limb.
CreateLShr(w, s) ==
  IF s = 0 THEN w
  ELSE IF s = WordBits \div Len(ZeroWord)
       THEN Settle([i \in DOMAIN w |-> IF i = 1 THEN 0 ELSE w[i - 1]])
  ELSE Settle([i \in DOMAIN w |->
                 (w[i] \div (2 ^ s))
                 + (IF i = 1 THEN 0
                    ELSE (w[i - 1] % (2 ^ s))
                         * (2 ^ ((WordBits \div Len(ZeroWord)) - s)))])

\* The remainder left after the limbs 1..i of a have been divided by d.
RECURSIVE RemAfter(_, _, _)
RemAfter(a, d, i) ==
  IF i = 0 THEN 0 ELSE (RemAfter(a, d, i - 1) * LimbBase + a[i]) % d

\* b_.CreateUDiv: the unsigned quotient, for a divisor of one limb below
\* LimbBase / 2 (the steps of lhist are small literals).
CreateUDiv(a, b) ==
  Settle([i \in DOMAIN a |->
            (RemAfter(a, b[Len(b)], i - 1) * LimbBase + a[i]) \div b[Len(b)]])

\* An operand of integer type: its width, the signedness of its type, and its
\* bits as a word.
Operand(bits, signed, raw) == [bits |-> bits, signed |-> signed, raw |-> raw]

\* b_.CreateIntCast(expr_, b_.getInt64Ty(), false) for every operand.
CreateIntCast_zext(arg) == arg.raw

\* b_.CreateIntCast(expr_, b_.getInt64Ty(), type.IsSigned()): the sign bit of
\* a signed operand narrower than a word fills the bits above it.
CreateIntCast(arg) ==
  IF arg.signed /\ arg.bits < WordBits /\ ~ICmpULT(arg.raw, Pow2Word(arg.bits - 1))
  THEN CreateAdd(arg.raw, CreateNot(CreateSub(Pow2Word(arg.bits), NatWord(1))))
  ELSE arg.raw

\* ------------------------------------------- the log2 and linear helpers

\* The constant of step i of log2 with 1 << i in place of 1 << (1 << i).
Log2Threshold_single_shift(i) == Pow2Word(i)

\* b_.getInt64(1 << (1 << i)).
Log2Threshold(i) == Pow2Word(2 ^ i)

\* One unrolled step of log2: shift = (n >= 1 << (1 << i)) << i.
Log2Shift(n, i) == IF ICmpSGE(n, Log2Threshold(i)) THEN 2 ^ i ELSE 0

\* The steps i, i - 1, ..., 0 on n and result; the result at the end.
RECURSIVE Log2Steps(_, _, _)
Log2Steps(n, result, i) ==
  IF i < 0 THEN result
  ELSE Log2Steps(CreateLShr(n, Log2Shift(n, i)),
                 CreateAdd(result, NatWord(Log2Shift(n, i))), i - 1)

\* The function createLog2Function builds, as called by hist.
log2(n) ==
  IF ICmpSLT(n, ZeroWord) THEN ZeroWord
  ELSE IF n = ZeroWord THEN NatWord(1)
  ELSE Log2Steps(n, NatWord(2), Log2FirstStep)

\* The function createLinearFunction builds, as called by lhist.
linear(value, min, max, step) ==
  IF ICmpSLT(value, min) THEN ZeroWord
  ELSE IF ICmpSGT(value, max)
       THEN CreateAdd(CreateUDiv(CreateSub(max, min), step), NatWord(1))
  ELSE CreateAdd(CreateUDiv(CreateSub(value, min), step), NatWord(1))

\* Arguments log2 is called with: 0, the powers of two, their neighbours, and
\* numbers with the sign bit set.
Log2Inputs ==
  {ZeroWord, MaxWord, Pow2Word(WordBits - 1)}
    \cup { Pow2Word(e) : e \in 0..(WordBits - 2) }
    \cup { CreateAdd(Pow2Word(e), NatWord(1)) : e \in 1..(WordBits - 2) }
    \cup { CreateSub(Pow2Word(e + 1), NatWord(1)) : e \in 1..(WordBits - 2) }

\* Arguments linear is called with: value, min, max, step.
LinearInputs ==
  { <<value, min, max, step>> :
      value \in { NatWord(v) : v \in {0, 4, 5, 7, 10, 11, 200} }
                  \cup {MaxWord, Pow2Word(WordBits - 1), Pow2Word(WordBits \div 2)},
      min \in { NatWord(v) : v \in {0, 5} },
      max \in { NatWord(v) : v \in {4, 10} },
      step \in { NatWord(v) : v \in {1, 3} } }

InitFn ==
  /\ IdleDriver
  /\ IdleIR
  /\ IdleMap
  /\ IdleAgg
  /\ IdleCtx
  /\ IdleRest
  /\ \/ fn_pc = "log2.entry" /\ fn_args \in { <<n>> : n \in Log2Inputs }
     \/ fn_pc = "linear.entry" /\ fn_args \in LinearInputs
  /\ fn_mem = FnNoMem
  /\ fn_i = Log2FirstStep
  /\ fn_ret = <<>>

FnOthers == <<drvVars, irVars, mapVars, aggVars, ctxVars, restVars>>

\* log2, block entry: n and result are set up, n < 0 is tested.
Log2Entry ==
  /\ fn_pc = "log2.entry"
  /\ fn_mem' = [n |-> fn_args[1], result |-> ZeroWord]
  /\ fn_pc' = IF ICmpSLT(fn_args[1], ZeroWord)
              THEN "hist.is_less_than_zero" ELSE "hist.is_not_less_than_zero"
  /\ UNCHANGED <<FnOthers, fn_args, fn_i, fn_ret>>

Log2IsLessThanZero ==
  /\ fn_pc = "hist.is_less_than_zero"
  /\ fn_ret' = fn_mem.result
  /\ fn_pc' = "returned"
  /\ UNCHANGED <<FnOthers, fn_args, fn_mem, fn_i>>

Log2IsNotLessThanZero ==
  /\ fn_pc = "hist.is_not_less_than_zero"
  /\ fn_pc' = IF fn_mem.n = ZeroWord THEN "hist.is_zero" ELSE "hist.is_not_zero"
  /\ UNCHANGED <<FnOthers, fn_args, fn_mem, fn_i, fn_ret>>

Log2IsZero ==
  /\ fn_pc = "hist.is_zero"
  /\ fn_mem' = [fn_mem EXCEPT !.result = NatWord(1)]
  /\ fn_ret' = NatWord(1)
  /\ fn_pc' = "returned"
  /\ UNCHANGED <<FnOthers, fn_args, fn_i>>

\* log2, block is_not_zero: result = 2, then the unrolled steps.
Log2IsNotZero ==
  /\ fn_pc = "hist.is_not_zero"
  /\ fn_mem' = [fn_mem EXCEPT !.result = NatWord(2)]
  /\ fn_pc' = "hist.is_not_zero.steps"
  /\ UNCHANGED <<FnOthers, fn_args, fn_i, fn_ret>>

\* log2, the unrolled step i.
Log2Step ==
  /\ fn_pc = "hist.is_not_zero.steps"
  /\ fn_i >= 0
  /\ fn_mem' = [n |-> CreateLShr(fn_mem.n, Log2Shift(fn_mem.n, fn_i)),
                result |-> CreateAdd(fn_mem.result, NatWord(Log2Shift(fn_mem.n, fn_i)))]
  /\ fn_i' = fn_i - 1
  /\ UNCHANGED <<FnOthers, fn_args, fn_pc, fn_ret>>

\* log2, the return after the last step.
Log2Return ==
  /\ fn_pc = "hist.is_not_zero.steps"
  /\ fn_i < 0
  /\ fn_ret' = fn_mem.result
  /\ fn_pc' = "returned"
  /\ UNCHANGED <<FnOthers, fn_args, fn_mem, fn_i>>

\* linear, block entry: value < min is tested.
LinearEntry ==
  /\ fn_pc = "linear.entry"
  /\ fn_pc' = IF ICmpSLT(fn_args[1], fn_args[2]) THEN "lhist.lt_min" ELSE "lhist.ge_min"
  /\ UNCHANGED <<FnOthers, fn_args, fn_mem, fn_i, fn_ret>>

LinearLtMin ==
  /\ fn_pc = "lhist.lt_min"
  /\ fn_ret' = ZeroWord
  /\ fn_pc' = "returned"
  /\ UNCHANGED <<FnOthers, fn_args, fn_mem, fn_i>>

LinearGeMin ==
  /\ fn_pc = "lhist.ge_min"
  /\ fn_pc' = IF ICmpSGT(fn_args[1], fn_args[3]) THEN "lhist.gt_max" ELSE "lhist.le_max"
  /\ UNCHANGED <<FnOthers, fn_args, fn_mem, fn_i, fn_ret>>

\* linear, block gt_max with the value in place of max.
LinearGtMax_from_value ==
  /\ fn_pc = "lhist.gt_max"
  /\ fn_ret' = CreateAdd(CreateUDiv(CreateSub(fn_args[1], fn_args[2]), fn_args[4]),
                         NatWord(1))
  /\ fn_mem' = [fn_mem EXCEPT !.result = fn_ret']
  /\ fn_pc' = "returned"
  /\ UNCHANGED <<FnOthers, fn_args, fn_i>>

LinearGtMax ==
  /\ fn_pc = "lhist.gt_max"
  /\ fn_ret' = CreateAdd(CreateUDiv(CreateSub(fn_args[3], fn_args[2]), fn_args[4]),
                         NatWord(1))
  /\ fn_mem' = [fn_mem EXCEPT !.result = fn_ret']
  /\ fn_pc' = "returned"
  /\ UNCHANGED <<FnOthers, fn_args, fn_i>>

LinearLeMax ==
  /\ fn_pc = "lhist.le_max"
  /\ fn_ret' = CreateAdd(CreateUDiv(CreateSub(fn_args[1], fn_args[2]), fn_args[4]),
                         NatWord(1))
  /\ fn_mem' = [fn_mem EXCEPT !.result = fn_ret']
  /\ fn_pc' = "returned"
  /\ UNCHANGED <<FnOthers, fn_args, fn_i>>

NextFn ==
  \/ Log2Entry \/ Log2IsLessThanZero \/ Log2IsNotLessThanZero \/ Log2IsZero
  \/ Log2IsNotZero \/ Log2Step \/ Log2Return
  \/ LinearEntry \/ LinearLtMin \/ LinearGeMin \/ LinearGtMax \/ LinearLeMax

SpecFn == InitFn /\ [][NextFn]_vars

\* ------------------------------------------- sum, min, max, hist and lhist

AggFns == {"sum", "min", "max", "hist", "lhist"}

\* An operand of 64 bits, and the operand -1 of a signed type of the given width.
Int64(raw) == Operand(WordBits, TRUE, raw)
UInt64(raw) == Operand(WordBits, FALSE, raw)
MinusOne(bits) == Operand(bits, TRUE, CreateSub(Pow2Word(bits), NatWord(1)))

\* The arguments the aggregations are called with.
AggArgs(fn) ==
  CASE fn = "sum" ->
         { <<a>> : a \in { UInt64(NatWord(3)), UInt64(MaxWord), MinusOne(WordBits \div 2),
                           Operand(WordBits \div 2, FALSE, MinusOne(WordBits \div 2).raw),
                           Operand(8, TRUE, NatWord(128)) } }
    [] fn = "min" ->
         { <<a>> : a \in { UInt64(NatWord(3)), UInt64(NatWord(5)),
                           UInt64(Pow2Word(WordBits \div 2)), MinusOne(WordBits \div 2),
                           Operand(WordBits \div 2, FALSE, MinusOne(WordBits \div 2).raw) } }
    [] fn = "max" ->
         { <<a>> : a \in { UInt64(ZeroWord), UInt64(NatWord(3)), UInt64(NatWord(5)),
                           MinusOne(WordBits \div 2), Int64(Pow2Word(WordBits - 1)) } }
    [] fn = "hist" ->
         { <<a>> : a \in { UInt64(ZeroWord), UInt64(NatWord(1)), UInt64(NatWord(5)),
                           UInt64(Pow2Word(WordBits \div 2)), MinusOne(WordBits \div 2) } }
    [] fn = "lhist" ->
         { <<a, Int64(NatWord(5)), Int64(NatWord(10)), Int64(NatWord(3))>> :
             a \in { UInt64(ZeroWord), UInt64(NatWord(7)), UInt64(NatWord(9)),
                     UInt64(NatWord(200)), MinusOne(WordBits \div 2) } }

\* A CPU outside every aggregation call.
AggCpuIdle ==
  [pc |-> "idle", k |-> 0, key |-> <<>>, args |-> <<>>, oldval |-> ZeroWord,
   absent |-> FALSE, alone |-> TRUE]

\* The history before any call has completed.
NoCall ==
  [fn |-> "", k |-> 0, key |-> <<>>, args |-> <<>>, seen |-> ZeroWord,
   absent |-> FALSE, wrote |-> FALSE, before |-> <<>>, alone |-> TRUE]

InitAgg ==
  /\ IdleDriver
  /\ IdleIR
  /\ IdleMap
  /\ IdleFn
  /\ IdleCtx
  /\ IdleRest
  /\ agg_fn \in AggFns
  /\ agg_slots = <<>>
  /\ agg_cpu = [c \in Cpus |-> AggCpuIdle]
  /\ agg_log = [last |-> NoCall, started |-> 0, completed |-> 0,
                overlapped |-> FALSE, passed |-> <<>>]

AggOthers == <<drvVars, irVars, mapVars, fnVars, ctxVars, restVars>>

\* getMapKey for a map with one key argument.
AggMapKey(k) == <<k>>

\* getHistMapKey with the key argument dropped.
getHistMapKey_no_key(k, bucket) == <<0, bucket>>

\* getHistMapKey for a map with one key argument: the bucket follows the key.
getHistMapKey(k, bucket) == <<k, bucket>>

\* The CPUs between the lookup and the end of a call on the key.
AggInFlight(key) == { d \in Cpus : agg_cpu[d].pc # "idle" /\ agg_cpu[d].key = key }

\* The first half of a call on CPU c: the key is built and the slot looked up.
Lookup(c, fn, k, key, args) ==
  /\ agg_cpu' = [d \in Cpus |->
       IF d = c
       THEN [pc |-> fn, k |-> k, key |-> key, args |-> args,
             oldval |-> CreateMapLookupElem(agg_slots, key),
             absent |-> key \notin DOMAIN agg_slots,
             alone |-> AggInFlight(key) = {}]
       ELSE IF d \in AggInFlight(key) THEN [agg_cpu[d] EXCEPT !.alone = FALSE]
       ELSE agg_cpu[d]]
  /\ agg_log' = [agg_log EXCEPT !.started = @ + 1,
                                !.overlapped = @ \/ AggInFlight(key) # {}]
  /\ UNCHANGED <<AggOthers, agg_fn, agg_slots>>

\* A call of fn may start on CPU c.
MayStart(c, fn) ==
  /\ agg_fn = fn
  /\ agg_cpu[c].pc = "idle"
  /\ agg_log.started < MaxAggCalls

\* The second half of a call on CPU c: the update, if the call makes one.
Finish(c, wrote, newval) ==
  /\ agg_slots' = IF wrote THEN CreateMapUpdateElem(agg_slots, agg_cpu[c].key, newval)
                  ELSE agg_slots
  /\ agg_cpu' = [agg_cpu EXCEPT ![c] = AggCpuIdle]
  /\ agg_log' = [agg_log EXCEPT
       !.last = [fn |-> agg_fn, k |-> agg_cpu[c].k, key |-> agg_cpu[c].key,
                 args |-> agg_cpu[c].args,
                 seen |-> agg_cpu[c].oldval, absent |-> agg_cpu[c].absent,
                 wrote |-> wrote, before |-> agg_slots, alone |-> agg_cpu[c].alone],
       !.completed = @ + 1,
       !.passed = Append(@, <<agg_cpu[c].k, agg_cpu[c].args>>)]
  /\ UNCHANGED <<AggOthers, agg_fn>>

\* sum: getMapKey, CreateMapLookupElem.
SumLookup(c, k, args) ==
  /\ MayStart(c, "sum")
  /\ Lookup(c, "sum", k, AggMapKey(k), args)

\* sum: the cast, the addition, the update.
SumUpdate(c) ==
  /\ agg_cpu[c].pc = "sum"
  /\ \E sum \in {CreateAdd(CreateIntCast(agg_cpu[c].args[1]), agg_cpu[c].oldval)} :
       Finish(c, TRUE, sum)

\* min: getMapKey, CreateMapLookupElem.
MinLookup(c, k, args) ==
  /\ MayStart(c, "min")
  /\ Lookup(c, "min", k, AggMapKey(k), args)

\* b_.CreateSub(b_.getInt64(0xffffffff), expr_) after the cast.
minInverted(arg) ==
  CreateSub(CreateSub(Pow2Word(WordBits \div 2), NatWord(1)), CreateIntCast(arg))

\* b_.CreateICmpSGE(inverted, oldval) of min.
minStores(inverted, oldval) == ICmpSGE(inverted, oldval)

\* min, block min.ge: the inverted value is stored.
MinGe(c) ==
  /\ agg_cpu[c].pc = "min"
  /\ minStores(minInverted(agg_cpu[c].args[1]), agg_cpu[c].oldval)
  /\ \E inverted \in {minInverted(agg_cpu[c].args[1])} : Finish(c, TRUE, inverted)

\* min, block min.lt: nothing is stored.
MinLt(c) ==
  /\ agg_cpu[c].pc = "min"
  /\ ~minStores(minInverted(agg_cpu[c].args[1]), agg_cpu[c].oldval)
  /\ Finish(c, FALSE, ZeroWord)

\* max: getMapKey, CreateMapLookupElem.
MaxLookup(c, k, args) ==
  /\ MayStart(c, "max")
  /\ Lookup(c, "max", k, AggMapKey(k), args)

\* The test of max with the operands compared as unsigned numbers.
maxStores_unsigned(val, oldval) == ~ICmpULT(val, oldval)

\* b_.CreateICmpSGE(expr_, oldval) of max.
maxStores(val, oldval) == ICmpSGE(val, oldval)

\* max, block max.ge: the value is stored.
MaxGe(c) ==
  /\ agg_cpu[c].pc = "max"
  /\ maxStores(CreateIntCast(agg_cpu[c].args[1]), agg_cpu[c].oldval)
  /\ Finish(c, TRUE, CreateIntCast(agg_cpu[c].args[1]))

\* max, block max.lt: nothing is stored.
MaxLt(c) ==
  /\ agg_cpu[c].pc = "max"
  /\ ~maxStores(CreateIntCast(agg_cpu[c].args[1]), agg_cpu[c].oldval)
  /\ Finish(c, FALSE, ZeroWord)

\* hist: the cast, the call of log2, getHistMapKey, CreateMapLookupElem.
HistLookup(c, k, args) ==
  /\ MayStart(c, "hist")
  /\ \E key \in {getHistMapKey(k, log2(CreateIntCast(args[1])))} :
       Lookup(c, "hist", k, key, args)

\* hist: the addition of 1, the update.
HistUpdate(c) ==
  /\ agg_cpu[c].pc = "hist"
  /\ Finish(c, TRUE, CreateAdd(agg_cpu[c].oldval, NatWord(1)))

\* b_.CreateIntCast(expr_, b_.getInt64Ty(), false).
CreateIntCastUnsigned(arg) == CreateIntCast([arg EXCEPT !.signed = FALSE])

\* lhist: the casts, the call of linear, getHistMapKey, CreateMapLookupElem.
LhistLookup(c, k, args) ==
  /\ MayStart(c, "lhist")
  /\ \E key \in {getHistMapKey(k, linear(CreateIntCast(args[1]),
                                          CreateIntCastUnsigned(args[2]),
                                          CreateIntCastUnsigned(args[3]),
                                          CreateIntCastUnsigned(args[4])))} :
       Lookup(c, "lhist", k, key, args)

\* lhist: the addition of 1, the update.
LhistUpdate(c) ==
  /\ agg_cpu[c].pc = "lhist"
  /\ Finish(c, TRUE, CreateAdd(agg_cpu[c].oldval, NatWord(1)))

NextAgg ==
  \/ \E c \in Cpus, k \in Keys : \E args \in AggArgs("sum") : SumLookup(c, k, args)
  \/ \E c \in Cpus : SumUpdate(c)
  \/ \E c \in Cpus, k \in Keys : \E args \in AggArgs("min") : MinLookup(c, k, args)
  \/ \E c \in Cpus : MinGe(c)
  \/ \E c \in Cpus : MinLt(c)
  \/ \E c \in Cpus, k \in Keys : \E args \in AggArgs("max") : MaxLookup(c, k, args)
  \/ \E c \in Cpus : MaxGe(c)
  \/ \E c \in Cpus : MaxLt(c)
  \/ \E c \in Cpus, k \in Keys : \E args \in AggArgs("hist") : HistLookup(c, k, args)
  \/ \E c \in Cpus : HistUpdate(c)
  \/ \E c \in Cpus, k \in Keys : \E args \in AggArgs("lhist") : LhistLookup(c, k, args)
  \/ \E c \in Cpus : LhistUpdate(c)

SpecAgg == InitAgg /\ [][NextAgg]_vars

\* ------------------------------------------- reads of the probe context

\* An instruction that reads memory: where its address comes from ("ctx" for
\* an address computed from ctx_, "stack" for an alloca, "bpf" for memory the
\* program already holds, "external" for any other pointer), whether it is
\* marked volatile, and its name.
MemInst(op, from, volatile, name) ==
  [op |-> op, from |-> from, volatile |-> volatile, name |-> name]

\* b_.CreateLoad(type, ptr, name) and b_.CreateLoad(ptr): not volatile.
CreateLoad(from, name) == MemInst("load", from, FALSE, name)

\* b_.CreateLoad(ptr, true).
CreateLoadVolatile(from, name) == MemInst("load", from, TRUE, name)

\* setVolatile left out.
setVolatile_skipped(inst) == inst

\* dyn_cast<LoadInst>(expr_)->setVolatile(true).
setVolatile(inst) == [inst EXCEPT !.volatile = TRUE]

\* b_.CREATE_MEMCPY_VOLATILE and b_.CREATE_MEMCPY, by their source.
MemcpyVolatile(from, name) == MemInst("memcpy", from, TRUE, name)
Memcpy(from, name) == MemInst("memcpy", from, FALSE, name)

\* b_.CreateProbeRead: the helper reads the source, no load is emitted.
CreateProbeRead(from, name) == MemInst("probe_read", from, FALSE, name)

\* A call of a builder routine defined outside this file.
BuilderCall(name) == MemInst("call", "ctx", FALSE, name)

\* The builtins that read the context, with the flags of their type and probe.
CtxBuiltins ==
  { [ident |-> i, is_kfarg |-> k, usdt |-> u] :
      i \in {"arg0", "retval", "func", "sarg0", "args", "ctx"},
      k \in BOOLEAN, u \in BOOLEAN }
    \ { b \in [ident : {"arg0", "retval", "func", "sarg0", "args", "ctx"},
               is_kfarg : BOOLEAN, usdt : BOOLEAN] :
          b.is_kfarg /\ (b.usdt \/ b.ident \notin {"arg0", "retval"}) }

\* visit(Builtin&) for argN, retval, func, sargN, args and ctx.
visitBuiltin(builtin) ==
  IF builtin.ident \in {"arg0", "retval", "func"}
  THEN IF builtin.is_kfarg THEN <<BuilderCall("CreatKFuncArg")>>
       ELSE IF builtin.ident = "arg0" /\ builtin.usdt
            THEN <<BuilderCall("CreateUSDTReadArgument")>>
       ELSE <<setVolatile(CreateLoad("ctx", builtin.ident))>>
  ELSE IF builtin.ident = "sarg0"
       THEN <<setVolatile(CreateLoad("ctx", "reg_sp")),
              CreateProbeRead("external", builtin.ident),
              CreateLoad("stack", builtin.ident)>>
  ELSE <<>>

\* visit(Call&) for reg().
visitReg == <<setVolatile(CreateLoad("ctx", "reg_"))>>

\* The kinds of record a field is read from and the kinds of field.
RecordKinds == {"kfarg", "tuple", "internal", "ctx", "external"}
FieldKinds == {"record", "array", "string", "buffer", "bitfield", "int", "ptr"}

FieldAccesses == [rec : RecordKinds, field : FieldKinds]

\* visit(FieldAccess&).
visitFieldAccess(acc) ==
  IF acc.rec = "kfarg" THEN <<BuilderCall("CreatKFuncArg")>>
  ELSE IF acc.rec = "tuple"
       THEN IF acc.field \in {"record", "array", "string", "buffer"} THEN <<>>
            ELSE <<CreateLoad("stack", acc.field)>>
  ELSE IF acc.rec = "internal"
       THEN IF acc.field = "record" THEN <<Memcpy("bpf", acc.field)>>
            ELSE IF acc.field \in {"string", "buffer"} THEN <<>>
            ELSE <<CreateLoad("bpf", acc.field)>>
  ELSE IF acc.field \in {"record", "array"} THEN <<>>
  ELSE IF acc.field \in {"string", "buffer"}
       THEN IF acc.rec = "ctx" THEN <<MemcpyVolatile("ctx", acc.field)>>
            ELSE <<CreateProbeRead("external", acc.field)>>
  ELSE IF acc.field = "bitfield"
       THEN IF acc.rec = "ctx" THEN <<CreateLoadVolatile("ctx", acc.field)>>
            ELSE <<CreateProbeRead("external", acc.field),
                   CreateLoad("stack", acc.field)>>
  ELSE IF acc.rec = "ctx" THEN <<CreateLoadVolatile("ctx", acc.field)>>
  ELSE <<CreateProbeRead("external", acc.field), CreateLoad("stack", acc.field)>>

ArrayAccesses == [is_ctx : BOOLEAN, elem : {"int", "ptr", "record"}]

\* visit(ArrayAccess&).
visitArrayAccess(arr) ==
  IF arr.elem \in {"int", "ptr"}
  THEN IF arr.is_ctx THEN <<CreateLoadVolatile("ctx", "array_access")>>
       ELSE <<CreateProbeRead("external", "array_access"),
              CreateLoad("stack", "array_access")>>
  ELSE <<CreateProbeRead(IF arr.is_ctx THEN "ctx" ELSE "external", "array_access")>>

InitCtx ==
  /\ IdleDriver
  /\ IdleIR
  /\ IdleMap
  /\ IdleAgg
  /\ IdleFn
  /\ IdleRest
  /\ ctx_insts = <<>>
  /\ ctx_log = <<>>

CtxOthers == <<drvVars, irVars, mapVars, aggVars, fnVars, restVars>>

\* One more expression is lowered: its instructions follow the ones emitted.
Lowering(kind, node, insts) ==
  /\ Len(ctx_log) < MaxCtxReads
  /\ ctx_insts' = ctx_insts \o insts
  /\ ctx_log' = Append(ctx_log, [kind |-> kind, node |-> node, at |-> Len(ctx_insts)])
  /\ UNCHANGED CtxOthers

VisitBuiltin(builtin) ==
  /\ builtin \in CtxBuiltins
  /\ Lowering("builtin", builtin, visitBuiltin(builtin))

VisitReg ==
  /\ Len(ctx_log) < MaxCtxReads
  /\ Lowering("reg", <<>>, visitReg)

VisitFieldAccess(acc) ==
  /\ acc \in FieldAccesses
  /\ Lowering("field", acc, visitFieldAccess(acc))

VisitArrayAccess(arr) ==
  /\ arr \in ArrayAccesses
  /\ Lowering("array", arr, visitArrayAccess(arr))

NextCtx ==
  \/ \E builtin \in CtxBuiltins : VisitBuiltin(builtin)
  \/ VisitReg
  \/ \E acc \in FieldAccesses : VisitFieldAccess(acc)
  \/ \E arr \in ArrayAccesses : VisitArrayAccess(arr)

SpecCtx == InitCtx /\ [][NextCtx]_vars

\* --------------------------------------------------------- str and buf

\* Values of bpftrace_.strlen_: the smallest, the default and the largest one.
StrlenMin == 1
StrlenDefault == 64
StrlenMax == 200
StrlenValues == {StrlenMin, StrlenDefault, StrlenMax}

\* Literal lengths and the sizes of array arguments, in bytes.
LiteralLens == {0, 1, 63, 64, 65, 199, 200, 201, 255, 256, 300}
ArrayBytes == {4, 16}

\* Values a computed len has at run time: around the caps, around 2^8, and
\* the largest ones.
ComputedLens ==
  { NatWord(n) : n \in LiteralLens }
    \cup { CreateSub(ZeroWord, NatWord(1)), CreateSub(ZeroWord, NatWord(2)),
           Pow2Word(WordBits - 1), Pow2Word(WordBits \div 2) }

\* The Call: str or buf, with or without its second argument; n is the value
\* of a literal len, len the value the len expression has at run time.
Call(func, nargs, is_literal, n, len, strlen_, array_bytes) ==
  [func |-> func, nargs |-> nargs, is_literal |-> is_literal, n |-> n,
   len |-> len, strlen_ |-> strlen_, array_bytes |-> array_bytes]

Calls ==
  { Call(f, 2, FALSE, 0, len, s, 0) :
      f \in {"str", "buf"}, len \in ComputedLens, s \in StrlenValues }
    \cup { Call(f, 2, TRUE, n, NatWord(n), s, 0) :
             f \in {"str", "buf"}, n \in LiteralLens, s \in StrlenValues }
    \cup { Call("str", 1, FALSE, 0, ZeroWord, s, 0) : s \in StrlenValues }
    \cup { Call("buf", 1, FALSE, 0, ZeroWord, s, a) :
             s \in StrlenValues, a \in ArrayBytes }

\* b_.CreateICmp(CmpInst::ICMP_ULE, a, b).
ICmpULE(a, b) == ~ICmpUGT(a, b)

\* b_.CreateSelect(cmp, a, b).
CreateSelect(cmp, a, b) == IF cmp THEN a ELSE b

\* The bits of the length field of the buffer record.
LenFieldBits == 8

\* b_.CreateIntCast(length, type of the length field, false) and b_.getInt8:
\* the low LenFieldBits bits.
TruncToLenField(w) == NatWord(w[Len(w)] % (2 ^ LenFieldBits))

\* b_.CreateAdd(expr_, b_.getInt64(1)) of str.
strProposed(len) == CreateAdd(len, NatWord(1))

\* The size of str without the comparison with the cap.
strSelect_unclamped(proposed_strlen, strlen_) == proposed_strlen

\* str.min.cmp and str.min.select.
strSelect(proposed_strlen, strlen_) ==
  CreateSelect(ICmpULE(proposed_strlen, NatWord(strlen_)),
               proposed_strlen, NatWord(strlen_))

\* The length of buf without the comparison with the cap.
bufSelect_unclamped(proposed_length, strlen_) == proposed_length

\* length.cmp and length.select.
bufSelect(proposed_length, strlen_) ==
  CreateSelect(ICmpULE(proposed_length, NatWord(strlen_)),
               proposed_length, NatWord(strlen_))

\* fixed_buffer_length of buf, known when the call is lowered.
fixed_buffer_length(call) ==
  IF call.nargs > 1
  THEN IF call.is_literal THEN call.n ELSE call.strlen_
  ELSE call.array_bytes

InitCall ==
  /\ IdleDriver
  /\ IdleIR
  /\ IdleMap
  /\ IdleAgg
  /\ IdleFn
  /\ IdleCtx
  /\ IdleRel
  /\ IdleLoop
  /\ IdleGen
  /\ call_in \in Calls
  /\ call_pc = "entry"
  /\ call_val = NoCallValues

CallOthers == <<drvVars, irVars, mapVars, aggVars, fnVars, ctxVars, relVars,
                loopVars, genVars>>

\* str: the slot strlen is allocated and zeroed; without a len argument the
\* cap is stored in it.
StrEntry ==
  /\ call_pc = "entry"
  /\ call_in.func = "str"
  /\ IF call_in.nargs > 1
     THEN /\ call_val' = [call_val EXCEPT !.strlen = ZeroWord]
          /\ call_pc' = "str.proposed"
     ELSE /\ call_val' = [call_val EXCEPT !.strlen = NatWord(call_in.strlen_)]
          /\ call_pc' = "str.read"
  /\ UNCHANGED <<CallOthers, call_in>>

\* str: the len expression and the addition of 1.
StrProposed ==
  /\ call_pc = "str.proposed"
  /\ call_val' = [call_val EXCEPT !.proposed = strProposed(call_in.len)]
  /\ call_pc' = "str.min"
  /\ UNCHANGED <<CallOthers, call_in>>

\* str: the comparison, the select and the store to strlen.
StrSelect ==
  /\ call_pc = "str.min"
  /\ call_val' = [call_val EXCEPT
                    !.strlen = strSelect(call_val.proposed, call_in.strlen_)]
  /\ call_pc' = "str.read"
  /\ UNCHANGED <<CallOthers, call_in>>

\* str: the buffer of strlen_ bytes and the call of probe_read_str with the
\* size loaded from strlen.
StrProbeReadStr ==
  /\ call_pc = "str.read"
  /\ call_val' = [call_val EXCEPT !.dst_bytes = call_in.strlen_,
                                  !.size = call_val.strlen]
  /\ call_pc' = "done"
  /\ UNCHANGED <<CallOthers, call_in>>

\* buf: the len expression, the comparison and the select; without a len
\* argument the constant getInt8(fixed_buffer_length).
BufLength ==
  /\ call_pc = "entry"
  /\ call_in.func = "buf"
  /\ call_val' = [call_val EXCEPT !.length =
                    IF call_in.nargs > 1
                    THEN bufSelect(call_in.len, call_in.strlen_)
                    ELSE TruncToLenField(NatWord(fixed_buffer_length(call_in)))]
  /\ call_pc' = "buf.store"
  /\ UNCHANGED <<CallOthers, call_in>>

\* buf: the record is allocated, the length is cast to the type of the length
\* field and stored in it, the data array is zeroed.
BufStoreLength ==
  /\ call_pc = "buf.store"
  /\ call_val' = [call_val EXCEPT
                    !.dst_bytes = fixed_buffer_length(call_in),
                    !.length = TruncToLenField(call_val.length),
                    !.len_field = TruncToLenField(call_val.length)]
  /\ call_pc' = "buf.read"
  /\ UNCHANGED <<CallOthers, call_in>>

\* buf: the call of probe_read into the data array with the size length.
BufProbeRead ==
  /\ call_pc = "buf.read"
  /\ call_val' = [call_val EXCEPT !.size = call_val.length]
  /\ call_pc' = "done"
  /\ UNCHANGED <<CallOthers, call_in>>

NextCall ==
  \/ StrEntry
  \/ StrProposed
  \/ StrSelect
  \/ StrProbeReadStr
  \/ BufLength
  \/ BufStoreLength
  \/ BufProbeRead

SpecCall == InitCall /\ [][NextCall]_vars

\* ------------------------------------------- accept and the deferred release

\* The nodes walked: the statement loop of generateProbe at the bottom, and
\* expressions that install a release, pass one on, or consume one.
LoopKinds == {"stmts", "tuple"}
MapKinds == {"map", "map_key_on_stack", "map_value_alloca",
             "map_key_on_stack_value_alloca"}
ExprKinds == {"integer", "string", "cast", "field_rearm", "field_copy", "tuple",
              "binop"} \cup MapKinds

\* The accept() calls a visit makes.
Arity(kind) ==
  CASE kind = "stmts" -> MaxStatements
    [] kind \in {"integer", "string"} -> 0
    [] kind \in {"tuple", "binop"} -> 2
    [] OTHER -> 1

Frame(kind, path) ==
  [kind |-> kind, path |-> path, done |-> 0, held |-> <<>>, status |-> "visiting"]

\* A release: the node that installed it, how often it was invoked, how often
\* the owner of the value ended the lifetime itself after a disarm, how often
\* it was re-armed, and how often it was overwritten while in expr_deleter_.
Release(path) ==
  [node |-> path, invoked |-> 0, owner_ended |-> 0, rearmed |-> 0, lost |-> 0]

\* The slot and the log after a step of a visit.
Rel(slot, log) == [slot |-> slot, log |-> log]

\* An assignment to expr_deleter_ of a value that is not a release, or that
\* is one: what the slot held before is gone.
Overwrite(slot, log) ==
  IF slot = 0 THEN log ELSE [log EXCEPT ![slot].lost = @ + 1]

\* expr_deleter_ = [this, buf]() { b_.CreateLifetimeEnd(buf); }.
Install(slot, log, path) ==
  Rel(Len(log) + 1, Append(Overwrite(slot, log), Release(path)))

\* ~ScopedExprDeleter: the release, if there is one, is invoked.
Invoke(log, r) == IF r = 0 THEN log ELSE [log EXCEPT ![r].invoked = @ + 1]

\* The destructors of the scoped_del locals of a visit.
RECURSIVE InvokeAll(_, _)
InvokeAll(log, held) ==
  IF Len(held) = 0 THEN log
  ELSE InvokeAll(Invoke(log, held[Len(held)]), SubSeq(held, 1, Len(held) - 1))

\* The field access that passes the release on and still invokes it.
FieldRearm_still_armed(frame, slot, log) ==
  Rel(frame.held[1],
      InvokeAll(IF frame.held[1] = 0 THEN Overwrite(slot, log)
                ELSE [Overwrite(slot, log) EXCEPT ![frame.held[1]].rearmed = @ + 1],
                frame.held))

\* expr_deleter_ = scoped_del.disarm(): the release of the source buffer
\* becomes the release of the field, scoped_del invokes nothing.
FieldRearm(frame, slot, log) ==
  Rel(frame.held[1],
      IF frame.held[1] = 0 THEN Overwrite(slot, log)
      ELSE [Overwrite(slot, log) EXCEPT ![frame.held[1]].rearmed = @ + 1])

\* getMapKey with one key: a key on the stack is used as it is, its release is
\* disarmed and the caller ends the lifetime of the key; any other key is
\* copied and its release invoked at the end of the block.
getMapKeyRelease(frame, log) ==
  IF frame.kind \in {"map_key_on_stack", "map_key_on_stack_value_alloca"}
  THEN IF frame.held[1] = 0 THEN log
       ELSE [log EXCEPT ![frame.held[1]].owner_ended = @ + 1]
  ELSE Invoke(log, frame.held[1])

\* The visit of a node once its accept() calls have returned.
visitNode(frame, slot, log) ==
  CASE frame.kind = "integer" -> Rel(slot, log)
    [] frame.kind \in {"string", "tuple"} -> Install(slot, log, frame.path)
    [] frame.kind \in {"cast", "binop"} -> Rel(slot, InvokeAll(log, frame.held))
    [] frame.kind = "field_rearm" -> FieldRearm(frame, slot, log)
    [] frame.kind = "field_copy" ->
         Install(slot, InvokeAll(log, frame.held), frame.path)
    [] frame.kind \in {"map", "map_key_on_stack"} ->
         Rel(slot, getMapKeyRelease(frame, log))
    [] OTHER -> Install(slot, getMapKeyRelease(frame, log), frame.path)

\* The accept() calls the visits in progress have still to make.
RECURSIVE Pending(_)
Pending(stack) ==
  IF Len(stack) = 0 THEN 0
  ELSE Arity(Head(stack).kind) - Head(stack).done + Pending(Tail(stack))

InitRel ==
  /\ IdleDriver
  /\ IdleIR
  /\ IdleMap
  /\ IdleAgg
  /\ IdleFn
  /\ IdleCtx
  /\ IdleCall
  /\ IdleLoop
  /\ IdleGen
  /\ rel_slot = 0
  /\ rel_stack = << Frame("stmts", <<>>) >>
  /\ rel_log = <<>>

RelOthers == <<drvVars, irVars, mapVars, aggVars, fnVars, ctxVars, callVars,
               loopVars, genVars>>

Top == rel_stack[Len(rel_stack)]

\* accept(node), up to the call of the visit: expr_deleter_ = nullptr.
AcceptEnter(kind) ==
  /\ Top.status = "visiting"
  /\ Top.done < Arity(Top.kind)
  /\ Top.kind \in LoopKinds => Top.held = <<>>
  /\ kind = "integer" \/ Len(rel_log) + Pending(rel_stack) + Arity(kind) <= MaxRelNodes
  /\ rel_slot' = 0
  /\ rel_log' = Overwrite(rel_slot, rel_log)
  /\ rel_stack' = Append(rel_stack, Frame(kind, Append(Top.path, Top.done + 1)))
  /\ UNCHANGED RelOthers

\* The visit after its last accept(): what it does with expr_deleter_, and the
\* destructors of its scoped_del locals.
Visit ==
  /\ Len(rel_stack) > 1
  /\ Top.status = "visiting"
  /\ Top.done = Arity(Top.kind)
  /\ Top.kind \in LoopKinds => Top.held = <<>>
  /\ rel_slot' = visitNode(Top, rel_slot, rel_log).slot
  /\ rel_log' = visitNode(Top, rel_slot, rel_log).log
  /\ rel_stack' = [rel_stack EXCEPT ![Len(rel_stack)].status = "visited",
                                    ![Len(rel_stack)].held = <<>>]
  /\ UNCHANGED RelOthers

\* The end of accept(): the release moves from expr_deleter_ to the
\* ScopedExprDeleter the caller receives, expr_deleter_ = nullptr.
AcceptReturn ==
  /\ Top.status = "visited"
  /\ rel_slot' = 0
  /\ rel_stack' = [SubSeq(rel_stack, 1, Len(rel_stack) - 1) EXCEPT
                     ![Len(rel_stack) - 1].done = @ + 1,
                     ![Len(rel_stack) - 1].held = Append(@, rel_slot)]
  /\ UNCHANGED <<RelOthers, rel_log>>

\* The end of an iteration of a loop over statements or tuple elements: the
\* scoped_del of the iteration is destroyed.
LoopScopeEnd ==
  /\ Top.kind \in LoopKinds
  /\ Top.status = "visiting"
  /\ Top.held # <<>>
  /\ rel_log' = InvokeAll(rel_log, Top.held)
  /\ rel_stack' = [rel_stack EXCEPT ![Len(rel_stack)].held = <<>>]
  /\ UNCHANGED <<RelOthers, rel_slot>>

NextRel ==
  \/ \E kind \in ExprKinds : AcceptEnter(kind)
  \/ Visit
  \/ AcceptReturn
  \/ LoopScopeEnd

SpecRel == InitRel /\ [][NextRel]_vars

\* ------------------------------------------- while, break and continue

\* visit(While) up to the statements of the body: the three blocks, the branch
\* to while_cond, the condition and the branch on it.  while_cond is the block
\* Len(b.blocks) + 1, while_body the next and while_end the one after it.
visitWhileHead(b, node) ==
  SetInsertPoint(
    CondBrNE(
      EmitValue(
        SetInsertPoint(
          Emit(
            BasicBlockCreate(
              BasicBlockCreate(BasicBlockCreate(b, "while_cond"), "while_body"),
              "while_end"),
            Inst("br", Len(b.blocks) + 1, 0, 0, "")),
          Len(b.blocks) + 1),
        "eval", 0, node, ""),
      "true_cond", Len(b.blocks) + 2, Len(b.blocks) + 3),
    Len(b.blocks) + 2)

\* visit(While) after the statements of the body.
visitWhileTail(b, while_cond, while_end) ==
  SetInsertPoint(Emit(b, Inst("br", while_cond, 0, 0, "")), while_end)

\* break to the end of the outermost while.
visitBreak_outermost(b, loops) ==
  DeadBlock(Emit(b, Inst("br", loops[1][2], 0, 0, "break")), "unreach")

\* visit(Jump) for break: std::get<1>(loops_.back()).
visitBreak(b, loops) ==
  DeadBlock(Emit(b, Inst("br", loops[Len(loops)][2], 0, 0, "break")), "unreach")

\* visit(Jump) for continue: std::get<0>(loops_.back()).
visitContinue(b, loops) ==
  DeadBlock(Emit(b, Inst("br", loops[Len(loops)][1], 0, 0, "continue")), "unreach")

InitLoop ==
  /\ IdleDriver
  /\ IdleIR
  /\ IdleMap
  /\ IdleAgg
  /\ IdleFn
  /\ IdleCtx
  /\ IdleCall
  /\ IdleRel
  /\ IdleGen
  /\ loop_b = SetInsertPoint(BasicBlockCreate(NewBuilder, "entry"), 1)
  /\ loops_ = <<>>
  /\ loop_frames = <<>>
  /\ loop_log = <<>>

LoopOthers == <<drvVars, irVars, mapVars, aggVars, fnVars, ctxVars, callVars,
                relVars, genVars>>

\* A statement is lowered next while fewer than MaxLoopStmts have been.
MayLower ==
  Cardinality({ i \in DOMAIN loop_log : loop_log[i].ev # "left" }) < MaxLoopStmts

\* The entry of the log for a jump: where it was emitted, the whiles being
\* lowered at that time, and the block that became the insertion point.
JumpEvent(kind, b) ==
  [ev |-> kind, from |-> loop_b.cur, frames |-> loop_frames, at |-> b.cur,
   fresh |-> (b.cur = Len(b.blocks) /\ b.cur > Len(loop_b.blocks)
              /\ b.blocks[b.cur].insts = <<>>),
   entered |-> <<>>, left |-> <<>>]

\* visit(While) is entered: the pair is pushed, the head is emitted, the
\* statements of the body come next.
WhileEnter ==
  /\ MayLower
  /\ Len(loop_frames) < MaxLoopDepth
  /\ loop_b' = visitWhileHead(loop_b, Len(loop_log) + 1)
  /\ loops_' = Append(loops_, <<Len(loop_b.blocks) + 1, Len(loop_b.blocks) + 3>>)
  /\ loop_frames' = Append(loop_frames,
                           [while_cond |-> Len(loop_b.blocks) + 1,
                            while_body |-> Len(loop_b.blocks) + 2,
                            while_end |-> Len(loop_b.blocks) + 3,
                            entered |-> loops_])
  /\ loop_log' = Append(loop_log,
                        [ev |-> "while", from |-> loop_b.cur, frames |-> loop_frames,
                         at |-> Len(loop_b.blocks) + 2, fresh |-> FALSE,
                         entered |-> loops_, left |-> <<>>])
  /\ UNCHANGED LoopOthers

\* The body of the innermost while is over: the branch back, the insertion
\* point moves to while_end, the pair is popped.
WhileLeave ==
  /\ Len(loop_frames) > 0
  /\ loop_b' = visitWhileTail(loop_b, loop_frames[Len(loop_frames)].while_cond,
                              loop_frames[Len(loop_frames)].while_end)
  /\ loops_' = SubSeq(loops_, 1, Len(loops_) - 1)
  /\ loop_frames' = SubSeq(loop_frames, 1, Len(loop_frames) - 1)
  /\ loop_log' = Append(loop_log,
                        [ev |-> "left", from |-> loop_b.cur, frames |-> loop_frames,
                         at |-> loop_frames[Len(loop_frames)].while_end,
                         fresh |-> FALSE,
                         entered |-> loop_frames[Len(loop_frames)].entered,
                         left |-> SubSeq(loops_, 1, Len(loops_) - 1)])
  /\ UNCHANGED LoopOthers

\* visit(Jump) for break, inside a while.
JumpBreak ==
  /\ MayLower
  /\ Len(loops_) > 0
  /\ loop_b' = visitBreak(loop_b, loops_)
  /\ loop_log' = Append(loop_log, JumpEvent("break", visitBreak(loop_b, loops_)))
  /\ UNCHANGED <<LoopOthers, loops_, loop_frames>>

\* visit(Jump) for continue, inside a while.
JumpContinue ==
  /\ MayLower
  /\ Len(loops_) > 0
  /\ loop_b' = visitContinue(loop_b, loops_)
  /\ loop_log' = Append(loop_log, JumpEvent("continue", visitContinue(loop_b, loops_)))
  /\ UNCHANGED <<LoopOthers, loops_, loop_frames>>

\* visit(Jump) for return, inside a while or not.
JumpReturn ==
  /\ MayLower
  /\ loop_b' = visitJump(loop_b, <<>>)
  /\ loop_log' = Append(loop_log, JumpEvent("return", visitJump(loop_b, <<>>)))
  /\ UNCHANGED <<LoopOthers, loops_, loop_frames>>

\* Any statement without control flow: its instructions go to the insertion point.
LowerPlain ==
  /\ MayLower
  /\ loop_b' = EmitValue(loop_b, "eval", 0, Len(loop_log) + 1, "")
  /\ loop_log' = Append(loop_log,
                        [ev |-> "plain", from |-> loop_b.cur, frames |-> loop_frames,
                         at |-> loop_b.cur, fresh |-> FALSE,
                         entered |-> <<>>, left |-> <<>>])
  /\ UNCHANGED <<LoopOthers, loops_, loop_frames>>

NextLoop ==
  \/ WhileEnter
  \/ WhileLeave
  \/ JumpBreak
  \/ JumpContinue
  \/ JumpReturn
  \/ LowerPlain

SpecLoop == InitLoop /\ [][NextLoop]_vars

\* ------------------------------------------- the phases of the generator
\* The generator: state_, module_, whether an assert has aborted the process,
\* and the history of the operations called.
Gen(state, module, halted, log) ==
  [state_ |-> state, module_ |-> module, halted |-> halted, log |-> log]

\* One operation in the history: the phase it was called in, the phase it
\* left, and whether it returned, threw or was aborted by its assert.
GenCall(op, from, to, outcome) ==
  [op |-> op, from |-> from, to |-> to, outcome |-> outcome]

\* assert(cond) has failed: abort() ends the process where it stands.
AssertFailed(g, op) ==
  Gen(g.state_, g.module_, TRUE,
      Append(g.log, GenCall(op, g.state_, g.state_, "aborted")))

\* The operation threw before it changed anything.
Threw(g, op) ==
  Gen(g.state_, g.module_, g.halted,
      Append(g.log, GenCall(op, g.state_, g.state_, "threw")))

\* The operation returned with the generator in `state`, owning `module`.
Returned(g, op, state, module) ==
  Gen(state, module, g.halted,
      Append(g.log, GenCall(op, g.state_, state, "returned")))

\* The last operation called did not return.
Stopped(g) == g.log # <<>> /\ g.log[Len(g.log)].outcome # "returned"

\* generate_ir: accept(root_) walks the program, and throws when a usdt probe
\* is not found (walked = FALSE).
generate_ir(g, walked) ==
  IF g.state_ # "INIT" THEN AssertFailed(g, "generate_ir")
  ELSE IF ~walked THEN Threw(g, "generate_ir")
  ELSE Returned(g, "generate_ir", "IR", g.module_)

\* emit_elf: the passes run on the module and write the file, or the target
\* cannot emit one (written = FALSE); state_ is not assigned.
emit_elf(g, written) ==
  IF g.state_ # "OPT" THEN AssertFailed(g, "emit_elf")
  ELSE IF ~written THEN Threw(g, "emit_elf")
  ELSE Returned(g, "emit_elf", g.state_, g.module_)

optimize(g) ==
  IF g.state_ # "IR" THEN AssertFailed(g, "optimize")
  ELSE Returned(g, "optimize", "OPT", g.module_)

emit_stays_opt(g) ==
  IF g.state_ # "OPT" THEN AssertFailed(g, "emit")
  ELSE Returned(g, "emit", g.state_, FALSE)

\* emit: the module is moved into orc_->compileModule.
emit(g) ==
  IF g.state_ # "OPT" THEN AssertFailed(g, "emit")
  ELSE Returned(g, "emit", "DONE", FALSE)

\* compile: generate_ir(); optimize(); return emit(); the history gets the
\* three calls and then compile itself.
compile(g, walked) ==
  LET ir == generate_ir(g, walked)
      opt == IF Stopped(ir) THEN ir ELSE optimize(ir)
      done == IF Stopped(opt) THEN opt ELSE emit(opt)
      last == done.log[Len(done.log)]
  IN Gen(done.state_, done.module_, done.halted,
         Append(done.log, GenCall("compile", g.state_, done.state_, last.outcome)))

\* DumpIR: assert(module_.get() != nullptr), then the module is printed.
DumpIR(g) ==
  IF ~g.module_ THEN AssertFailed(g, "DumpIR")
  ELSE Returned(g, "DumpIR", g.state_, g.module_)

InitGen ==
  /\ IdleDriver
  /\ IdleIR
  /\ IdleMap
  /\ IdleAgg
  /\ IdleFn
  /\ IdleCtx
  /\ IdleCall
  /\ IdleRel
  /\ IdleLoop
  /\ state_ = "INIT"
  /\ module_ = TRUE
  /\ gen_halted = FALSE
  /\ gen_log = <<>>

GenOthers == <<drvVars, irVars, mapVars, aggVars, fnVars, ctxVars, callVars,
               relVars, loopVars>>

\* The generator as the variables hold it.
CurGen == Gen(state_, module_, gen_halted, gen_log)

\* The caller may call an operation: the process runs, and fewer than
\* MaxGenCalls calls are in the history.
MayCall == ~gen_halted /\ Len(gen_log) < MaxGenCalls

CallGenerateIr ==
  /\ MayCall
  /\ \E walked \in BOOLEAN :
       LET g == generate_ir(CurGen, walked)
       IN /\ state_' = g.state_
          /\ module_' = g.module_
          /\ gen_halted' = g.halted
          /\ gen_log' = g.log
  /\ UNCHANGED GenOthers

CallOptimize ==
  /\ MayCall
  /\ state_' = optimize(CurGen).state_
  /\ module_' = optimize(CurGen).module_
  /\ gen_halted' = optimize(CurGen).halted
  /\ gen_log' = optimize(CurGen).log
  /\ UNCHANGED GenOthers

CallEmitElf ==
  /\ MayCall
  /\ \E written \in BOOLEAN :
       LET g == emit_elf(CurGen, written)
       IN /\ state_' = g.state_
          /\ module_' = g.module_
          /\ gen_halted' = g.halted
          /\ gen_log' = g.log
  /\ UNCHANGED GenOthers

CallEmit ==
  /\ MayCall
  /\ state_' = emit(CurGen).state_
  /\ module_' = emit(CurGen).module_
  /\ gen_halted' = emit(CurGen).halted
  /\ gen_log' = emit(CurGen).log
  /\ UNCHANGED GenOthers

CallCompile ==
  /\ MayCall
  /\ \E walked \in BOOLEAN :
       LET g == compile(CurGen, walked)
       IN /\ state_' = g.state_
          /\ module_' = g.module_
          /\ gen_halted' = g.halted
          /\ gen_log' = g.log
  /\ UNCHANGED GenOthers

CallDumpIR ==
  /\ MayCall
  /\ state_' = DumpIR(CurGen).state_
  /\ module_' = DumpIR(CurGen).module_
  /\ gen_halted' = DumpIR(CurGen).halted
  /\ gen_log' = DumpIR(CurGen).log
  /\ UNCHANGED GenOthers

NextGen ==
  \/ CallGenerateIr
  \/ CallOptimize
  \/ CallEmitElf
  \/ CallEmit
  \/ CallCompile
  \/ CallDumpIR

SpecGen == InitGen /\ [][NextGen]_vars

\* ------------------------------------------------------- specifications

Init == InitDriver /\ IdleIR /\ IdleMap /\ IdleAgg /\ IdleFn /\ IdleCtx /\ IdleRest

Next ==
  \/ VisitProbeSingle
  \/ VisitProbeExpand
  \/ NextAttachPoint
  \/ NextMatch
  \/ BeginUsdtMatch
  \/ UsdtNotFound
  \/ UsdtLocation
  \/ EndUsdtMatch
  \/ EndAttachPoint
  \/ EndProbe

Spec == Init /\ [][Next]_vars

\* visit(Program) has returned.
Done == pc = "program" /\ probe_i > Len(program)

\* ------------------------------------------------------------ driver claims

ProgramIdx == 1..Len(programs)

\* C1: after lowering any Program the section names of all emitted programs
\* are pairwise distinct.
C1_SectionNamesDistinct ==
  \A i, j \in ProgramIdx :
    i # j => programs[i].section # programs[j].section

\* The programs emitted up to and including the i-th for the probe name of the i-th.
EmittedForName(i) ==
  { j \in 1..i : programs[j].probe_name = programs[i].probe_name }

IndexesCountPerName ==
  /\ \A i \in ProgramIdx : programs[i].index = Cardinality(EmittedForName(i))
  /\ \A n \in DOMAIN next_probe_index_ :
       next_probe_index_[n] =
         1 + Cardinality({ j \in ProgramIdx : programs[j].probe_name = n })

IndexCounterStep ==
  /\ \A n \in DOMAIN next_probe_index_ :
       /\ n \in DOMAIN next_probe_index_'
       /\ next_probe_index_'[n] >= next_probe_index_[n]
  /\ Len(programs') = Len(programs) => next_probe_index_' = next_probe_index_
  /\ Len(programs') # Len(programs) =>
       LET p == programs'[Len(programs')]
           old == IF p.probe_name \in DOMAIN next_probe_index_
                  THEN next_probe_index_[p.probe_name] ELSE 1
       IN /\ Len(programs') = Len(programs) + 1
          /\ p.index = old
          /\ next_probe_index_'[p.probe_name] = old + 1
          /\ \A n \in DOMAIN next_probe_index_' \ {p.probe_name} :
               n \in DOMAIN next_probe_index_
               /\ next_probe_index_'[n] = next_probe_index_[n]

\* C2: the index of a section name is a per-probe-name counter: the k-th
\* program emitted for a probe name has index k, whatever was emitted for other
\* names in between; a step that emits a program advances the counter of its
\* probe name by 1 and leaves every other counter alone, and no step lowers a
\* counter or removes one.
C2_IndexPerProbeName == []IndexesCountPerName /\ [][IndexCounterStep]_vars

\* Two probes of different names: the second, a wildcard with two matches, has
\* its own count 1, 2 after the program of the first took index 1.
C2_Witness ==
  \E i, j, k \in ProgramIdx :
    /\ i < j /\ j < k
    /\ programs[i].probe_name # programs[j].probe_name
    /\ programs[j].probe_name = programs[k].probe_name
    /\ programs[i].index = 1
    /\ programs[j].index = 1
    /\ programs[k].index = 2
    /\ Cardinality(DOMAIN next_probe_index_) = 2

\* C3: every program of a probe lowered with expansion starts with the values
\* the eight id counters had when the lowering of its probe began.
C3_ExpansionBaseline ==
  \A i \in ProgramIdx :
    programs[i].expansion =>
      \A c \in IdNames : programs[i].base[c] = entry_ids[programs[i].probe][c]

\* Two programs of one expanded probe whose body advances counters, the probe
\* starting from counters another probe has advanced.
C3_Witness ==
  \E i, j \in ProgramIdx :
    /\ i < j
    /\ programs[i].probe = programs[j].probe
    /\ programs[i].expansion
    /\ programs[i].calls # <<>>
    /\ programs[j].base # ZeroIds

\* The programs emitted for the locations of the usdt match being expanded.
LocPrograms ==
  { j \in ProgramIdx :
      /\ programs[j].probe = probe_i
      /\ programs[j].ap = current_attach_point_
      /\ \E l \in 0..(usdt_num_locations + 1) :
           programs[j].full_func_id = match \o "_loc" \o ToString(l) }

LocProgramsInOrder(count) ==
  /\ Cardinality(LocPrograms) = count
  /\ Len(programs) >= count
  /\ \A l \in 0..(count - 1) :
       LET p == programs[Len(programs) - count + 1 + l]
       IN /\ p.name = "usdt:" \o match \o "_loc" \o ToString(l)
          /\ p.section = "s_usdt:" \o match \o "_loc" \o ToString(l)
                           \o "_" \o ToString(p.index)
          /\ \A a \in Range(p.usdt_args) : a = l

\* C4: a usdt match whose metadata has num_locations = k yields exactly k
\* programs, in the order i = 0..k-1, the i-th with the suffix _loc<i> before
\* the index, and the argument reader of the i-th is handed location index i.
C4_UsdtFanout ==
  /\ pc = "loc" => loc_i <= usdt_num_locations /\ LocProgramsInOrder(loc_i)
  /\ (pc = "match" /\ match # "" /\ CurAP.provider = "usdt") =>
       LocProgramsInOrder(usdt_num_locations)

\* A usdt match of two locations has been expanded completely.
C4_Witness ==
  /\ pc = "match"
  /\ match # ""
  /\ CurAP.provider = "usdt"
  /\ usdt_num_locations = 2
  /\ programs[Len(programs)].usdt_args = <<1>>

\* C5: a probe with need_expansion false whose first attach point is not usdt
\* yields exactly one program, whatever the number of its attach points, with
\* section s_<probe name>_<index>, and find_wildcard_matches is not asked.
C5_NoExpansionOneProgram ==
  \A q \in 1..(probe_i - 1) :
    (~program[q].need_expansion /\ program[q].attach_points[1].provider # "usdt") =>
      /\ Cardinality({ j \in ProgramIdx : programs[j].probe = q }) = 1
      /\ \A j \in ProgramIdx :
           programs[j].probe = q =>
             /\ programs[j].name = ProbeName(program[q])
             /\ programs[j].section =
                  "s_" \o ProbeName(program[q]) \o "_" \o ToString(programs[j].index)
      /\ \A k \in 1..Len(resolver_log) : resolver_log[k][1] # q

\* A probe of two attach points, one a wildcard, lowered without expansion.
C5_Witness ==
  \E q \in 1..(probe_i - 1) :
    /\ ~program[q].need_expansion
    /\ Len(program[q].attach_points) = 2
    /\ \E j \in ProgramIdx :
         programs[j].probe = q /\ programs[j].section = "s_kprobe:f,kprobe:f*_1"

\* What the inputs of a run determine: the counters, the index table and the
\* programs after the inputs of log have been consumed.
NoOutput == [ids |-> ZeroIds, table |-> <<>>, programs |-> <<>>, log |-> delivered]

\* One program added to output st, as generateProbe adds it.
EmitProgram(st, p, cap, idsIn, full_func_id, section_name, expansion, usdt_index) ==
  [st EXCEPT
     !.table = getNextIndexForProbe(st.table, ProbeName(program[p])).table,
     !.ids = lowerStmts(program[p].stmts, idsIn,
                        program[p].attach_points[cap].provider, usdt_index).ids,
     !.programs = Append(@,
        [name |-> section_name,
         section |-> getSectionNameForProbe(
                       section_name,
                       getNextIndexForProbe(st.table, ProbeName(program[p])).index),
         index |-> getNextIndexForProbe(st.table, ProbeName(program[p])).index,
         probe_name |-> ProbeName(program[p]),
         probe |-> p,
         ap |-> cap,
         full_func_id |-> full_func_id,
         expansion |-> expansion,
         base |-> idsIn,
         calls |-> lowerStmts(program[p].stmts, idsIn,
                              program[p].attach_points[cap].provider, usdt_index).calls,
         usdt_args |-> lowerStmts(program[p].stmts, idsIn,
                                  program[p].attach_points[cap].provider,
                                  usdt_index).usdt_args])]

\* The programs of the locations loc, loc + 1, ..., n - 1 of a usdt match.
RECURSIVE ReplayLocations(_, _, _, _, _, _, _)
ReplayLocations(st, p, cap, start, name, loc, n) ==
  IF loc >= n THEN st
  ELSE ReplayLocations(
         EmitProgram(st, p, cap, reset_ids(st.ids, start),
                     name \o "_loc" \o ToString(loc),
                     APName(program[p].attach_points[cap].provider, name)
                       \o "_loc" \o ToString(loc),
                     TRUE, loc),
         p, cap, start, name, loc + 1, n)

\* The programs of the matches names of attach point cap, taken in the given
\* order; a usdt match takes its number of locations from the log.
RECURSIVE ReplayMatches(_, _, _, _, _)
ReplayMatches(st, p, cap, start, names) ==
  IF names = <<>> THEN st
  ELSE IF program[p].attach_points[cap].provider = "usdt"
       THEN ReplayMatches(
              ReplayLocations([st EXCEPT !.ids = reset_ids(st.ids, start),
                                         !.log = Tail(@)],
                              p, cap, start, Head(names), 0, Head(st.log).locations),
              p, cap, start, Tail(names))
  ELSE ReplayMatches(
         EmitProgram(st, p, cap, reset_ids(st.ids, start), Head(names),
                     APName(program[p].attach_points[cap].provider, Head(names)),
                     TRUE, 0),
         p, cap, start, Tail(names))

\* The programs of the attach points cap, cap + 1, ... of probe p: the match
\* set of an attach point is taken from the log as a set and walked in the
\* order of the names.
RECURSIVE ReplayAttachPoints(_, _, _, _)
ReplayAttachPoints(st, p, cap, start) ==
  IF cap > Len(program[p].attach_points) THEN st
  ELSE IF program[p].attach_points[cap].provider \in {"BEGIN", "END"}
       THEN ReplayAttachPoints(
              ReplayMatches(st, p, cap, start,
                            SetOrder({program[p].attach_points[cap].provider})),
              p, cap + 1, start)
  ELSE ReplayAttachPoints(
         ReplayMatches([st EXCEPT !.log = Tail(@)], p, cap, start,
                       SetOrder(Head(st.log).names)),
         p, cap + 1, start)

\* The programs of the probes p, p + 1, ..., upto.
RECURSIVE ReplayProbes(_, _, _)
ReplayProbes(st, p, upto) ==
  IF p > upto THEN st
  ELSE IF ~NeedExpansion(program[p])
       THEN ReplayProbes(
              EmitProgram(st, p, 1, st.ids, ProbeName(program[p]),
                          ProbeName(program[p]), FALSE, 0),
              p + 1, upto)
  ELSE ReplayProbes(ReplayAttachPoints(st, p, 1, st.ids), p + 1, upto)

\* C19: between two probes and at the end of the run, the programs emitted,
\* with their section names, counter baselines and record ids, and the
\* counters left for the next probe are what the AST, the match sets received
\* (as sets, whatever the order of their delivery) and the usdt location counts
\* determine: two runs with the same inputs produce the same output.
C19_OutputFromInputs ==
  pc = "program" =>
    /\ programs = ReplayProbes(NoOutput, 1, probe_i - 1).programs
    /\ ids = ReplayProbes(NoOutput, 1, probe_i - 1).ids
    /\ next_probe_index_ = ReplayProbes(NoOutput, 1, probe_i - 1).table
    /\ ReplayProbes(NoOutput, 1, probe_i - 1).log = <<>>

\* A run has ended whose last match set was delivered as fg, f and whose
\* programs for it were emitted as f, fg.
C19_Witness ==
  /\ Done
  /\ resolved = <<"fg", "f">>
  /\ \E i \in 1..(Len(programs) - 1) :
       /\ programs[i].full_func_id = "f"
       /\ programs[i + 1].full_func_id = "fg"
       /\ programs[i].probe = programs[i + 1].probe
       /\ programs[i].ap = programs[i + 1].ap

\* The kinds of call site that write an id into their record.
IdKinds == {"printf", "system", "cat", "time", "strftime", "join", "print"}

\* The positions in the records of program i that belong to call sites of kind.
SitesOf(i, kind) ==
  { j \in DOMAIN programs[i].calls : programs[i].calls[j].kind = kind }

\* C26: lowering a call site of printf, system, cat, time, strftime, join or
\* print of a non-map advances the counter of its kind by 1 and leaves every
\* other counter alone; in every emitted program the n-th call site of a kind
\* carries the value the counter had at the start of the program plus n - 1,
\* written with the action base added for printf, system and cat, so the ids
\* of one kind in one program are consecutive and distinct.
C26_CallSiteIds ==
  /\ \A kind \in IdKinds : \A c \in IdNames :
       visitCallIds(ids, kind)[c] = ids[c] + (IF c = CounterOf(kind) THEN 1 ELSE 0)
  /\ \A i \in DOMAIN programs : \A kind \in IdKinds : \A j \in SitesOf(i, kind) :
       /\ programs[i].calls[j].id =
            programs[i].base[CounterOf(kind)]
              + Cardinality({ h \in SitesOf(i, kind) : h < j })
       /\ programs[i].calls[j].written =
            programs[i].calls[j].id + asyncactionint(kind)
       /\ \A h \in SitesOf(i, kind) :
            h # j => programs[i].calls[h].written # programs[i].calls[j].written

\* A program with two printf call sites and a time call site was emitted
\* after another probe had advanced printf_id_ and time_id_: its printf sites
\* carry the baseline and the baseline plus 1, its time site the baseline of
\* time_id_.
C26_Witness ==
  \E i \in DOMAIN programs :
    /\ programs[i].base.printf_id_ > 0
    /\ programs[i].base.time_id_ > 0
    /\ \E j, h \in SitesOf(i, "printf") :
         /\ j < h
         /\ programs[i].calls[j].written =
              programs[i].base.printf_id_ + asyncactionint("printf")
         /\ programs[i].calls[h].written = programs[i].calls[j].written + 1
    /\ \E j \in SitesOf(i, "time") :
         programs[i].calls[j].written = programs[i].base.time_id_

\* The match a program was generated for: full_func_id is the match, or the
\* match followed by the suffix of a usdt location.
MatchOf(i) ==
  CHOOSE n \in Range(NameOrder) :
    \/ programs[i].full_func_id = n
    \/ \E k \in 0..MaxLocations :
         programs[i].full_func_id = n \o "_loc" \o ToString(k)

PosIn(s, x) == CHOOSE k \in DOMAIN s : s[k] = x

\* The attach point loop is among the matches the resolver returned.
InResolvedMatches ==
  /\ pc \in {"match", "loc"}
  /\ CurAP.provider \notin {"BEGIN", "END"}

\* The programs emitted so far for the attach point the loop is at.
ProgramsOfCurAP ==
  { i \in DOMAIN programs :
      programs[i].probe = probe_i /\ programs[i].ap = current_attach_point_ }

\* C27 as stated: the programs of the matches of an attach point are emitted,
\* and numbered, in the order in which the resolver inserted the matches.
C27_InsertionOrder ==
  InResolvedMatches =>
    \A i, j \in ProgramsOfCurAP :
      (i < j /\ MatchOf(i) # MatchOf(j)) =>
        /\ PosIn(resolved, MatchOf(i)) < PosIn(resolved, MatchOf(j))
        /\ programs[i].index < programs[j].index

\* C27 amended: the programs of the matches of an attach point are emitted,
\* and numbered, in ascending order of the match names as strings, the
\* iteration order of the std::set the matches are kept in, whatever the order
\* in which the resolver inserted them.
C27_SortedOrder ==
  InResolvedMatches =>
    \A i, j \in ProgramsOfCurAP :
      (i < j /\ MatchOf(i) # MatchOf(j)) =>
        /\ PosIn(NameOrder, MatchOf(i)) < PosIn(NameOrder, MatchOf(j))
        /\ programs[i].index < programs[j].index

\* The resolver inserted fg before f, and the program of f was emitted before
\* the program of fg.
C27_Witness ==
  /\ InResolvedMatches
  /\ resolved = <<"fg", "f">>
  /\ \E i, j \in ProgramsOfCurAP :
       i < j /\ MatchOf(i) = "f" /\ MatchOf(j) = "fg"

\* The call sites of the kind in one copy of the body of the probe.
CallSitesIn(probe, kind) ==
  Cardinality({k \in 1..Len(probe.stmts) : probe.stmts[k] = kind})

\* C29: when visit(Probe) has returned, each of printf_id_, cat_id_,
\* system_id_, time_id_, strftime_id_, join_id_ and non_map_print_id_ is its
\* value on entry plus the number of call sites of its kind in one copy of the
\* body, whatever the attach points, matches and locations the probe had.
C29_IdsAdvanceByOneCopy ==
  pc = "program" /\ probe_i > 1 =>
    \A kind \in IdKinds :
      ids[CounterOf(kind)] =
        entry_ids[probe_i - 1][CounterOf(kind)]
          + CallSitesIn(program[probe_i - 1], kind)

\* ------------------------------------------------------------ IR claims

BlockIdx == 1..Len(ir_fn)
Lowered == ir_pc \in {"run", "returned"}

\* The instructions that carry the id of the source node they belong to.
TaggedOps == {"eval", "load", "map_lookup", "map_update", "perf_output"}

RetInsts ==
  { ir_fn[k].insts[i] :
      <<k, i>> \in { <<k, i>> \in BlockIdx \X (1..20) :
                       /\ i <= Len(ir_fn[k].insts)
                       /\ ir_fn[k].insts[i].op = "ret" } }

\* C6: every return instruction of the emitted function returns the 64-bit
\* constant 0, whichever place emitted it (false predicate, return statement,
\* exit(), end of the body), and a program that has returned has returned 0.
C6_ReturnsZero ==
  /\ \A r \in RetInsts : r.a = 0 /\ r.b = 64
  /\ ir_pc = "returned" => retval = 0

\* A program with all four kinds of return has returned through exit().
C6_Witness ==
  /\ ir_pc = "returned"
  /\ ret_site = "exit"
  /\ retval = 0
  /\ { r.note : r \in RetInsts } = {"pred_false", "return", "exit", "end"}

RECURSIVE ExprIds(_)
ExprIds(e) ==
  IF e.e \in {"and", "or"} THEN {e.id} \cup ExprIds(e.l) \cup ExprIds(e.r)
  ELSE IF e.e = "leaf" THEN {e.id}
  ELSE {}

RECURSIVE StmtIds(_)
StmtIds(s) ==
  {s.id} \cup ExprIds(s.e)
         \cup UNION { StmtIds(s.stmts[i]) : i \in DOMAIN s.stmts }
         \cup UNION { StmtIds(s.else_stmts[i]) : i \in DOMAIN s.else_stmts }

\* The ids of the statements that follow an exit() in the same statement list
\* (with everything nested in them), in the list ss or in a list nested in it.
RECURSIVE AfterExit(_)
AfterExit(ss) ==
  UNION { StmtIds(ss[j]) :
            j \in { j \in DOMAIN ss : \E i \in 1..(j - 1) : ss[i].s = "exit" } }
  \cup UNION { AfterExit(ss[i].stmts) \cup AfterExit(ss[i].else_stmts) :
                 i \in DOMAIN ss }

\* The blocks holding an instruction of one of the nodes ids.
BlocksOf(idset) ==
  { k \in BlockIdx :
      \E i \in 1..Len(ir_fn[k].insts) :
        /\ ir_fn[k].insts[i].op \in TaggedOps
        /\ ir_fn[k].insts[i].c \in idset }

Succs(k) ==
  UNION { IF ir_fn[k].insts[i].op = "br" THEN {ir_fn[k].insts[i].a}
          ELSE IF ir_fn[k].insts[i].op = "condbr"
               THEN {ir_fn[k].insts[i].b, ir_fn[k].insts[i].c}
          ELSE {} : i \in 1..Len(ir_fn[k].insts) }

Preds(k) == { j \in BlockIdx : k \in Succs(j) }

RECURSIVE ReachableFrom(_)
ReachableFrom(S) ==
  IF (UNION { Succs(k) : k \in S }) \subseteq S THEN S
  ELSE ReachableFrom(S \cup UNION { Succs(k) : k \in S })

\* The blocks control can reach from the entry block.
Reachable == ReachableFrom({1})

\* The blocks that hold the return emitted by an exit().
ExitBlocks ==
  { k \in BlockIdx :
      \E i \in 1..Len(ir_fn[k].insts) :
        ir_fn[k].insts[i].op = "ret" /\ ir_fn[k].insts[i].note = "exit" }

\* At run time nothing happens after the exit() record: no later event, and
\* the program returns 0 from the return that exit() emitted.
NothingAfterExit ==
  /\ \A i \in DOMAIN trace : trace[i].ev = "exit" => i = Len(trace)
  /\ (ir_pc = "returned" /\ \E i \in DOMAIN trace : trace[i].ev = "exit")
       => (ret_site = "exit" /\ retval = 0)

\* C7 as stated: every statement that follows exit() in the source is placed in
\* a block with no predecessor, and nothing of a later statement happens on a
\* path that executed exit().
C7_FollowersHaveNoPredecessor ==
  /\ Lowered => \A k \in BlocksOf(AfterExit(ir_probe.stmts)) : Preds(k) = {}
  /\ NothingAfterExit

\* C7 amended: exit() is followed by a return ending its block, the block that
\* takes the following instructions is new and has no predecessor, every
\* statement that follows exit() in its statement list lies in blocks that
\* cannot be reached from the entry block, and nothing happens after the exit()
\* record on a path that executed exit().
C7_FollowersUnreachable ==
  /\ Lowered =>
       /\ \A k \in ExitBlocks :
            /\ ir_fn[k].insts[Len(ir_fn[k].insts)].note = "exit"
            /\ \E d \in BlockIdx : ir_fn[d].name = "deadcode" /\ Preds(d) = {}
       /\ \A d \in BlockIdx : ir_fn[d].name = "deadcode" => Preds(d) = {}
       /\ BlocksOf(AfterExit(ir_probe.stmts)) \cap Reachable = {}
  /\ NothingAfterExit

\* exit() has run in a program where a count() and a printf() follow it, the
\* count() inside an if whose body has a predecessor.
C7_Witness ==
  /\ ir_pc = "returned"
  /\ ret_site = "exit"
  /\ \E i \in DOMAIN trace : trace[i].ev = "exit"
  /\ \E k \in BlocksOf(AfterExit(ir_probe.stmts)) : Preds(k) # {}

\* The && and || nodes of an expression.
RECURSIVE BinopsOf(_)
BinopsOf(e) ==
  IF e.e \in {"and", "or"} THEN {e} \cup BinopsOf(e.l) \cup BinopsOf(e.r) ELSE {}

RECURSIVE StmtBinops(_)
StmtBinops(s) ==
  BinopsOf(s.e)
    \cup UNION { StmtBinops(s.stmts[i]) : i \in DOMAIN s.stmts }
    \cup UNION { StmtBinops(s.else_stmts[i]) : i \in DOMAIN s.else_stmts }

ProbeBinops ==
  BinopsOf(ir_probe.pred)
    \cup UNION { StmtBinops(ir_probe.stmts[i]) : i \in DOMAIN ir_probe.stmts }

\* The positions in the trace where code of the expression e ran, and where
\* its value was produced.
RanAt(e) == { i \in DOMAIN trace : trace[i].node \in ExprIds(e) }
ValueAt(e) == { i \in DOMAIN trace : trace[i].ev = "value" /\ trace[i].node = e.id }
Truth(e) == \E i \in ValueAt(e) : trace[i].v # 0

\* C8: the code of r runs only after l has been evaluated, to non-zero for
\* l && r and to zero for l || r, and the value of the expression is exactly 1
\* when its logical value is true and exactly 0 otherwise.
C8_ShortCircuit ==
  \A e \in ProbeBinops :
    /\ \A i \in RanAt(e.r) :
         \E j \in ValueAt(e.l) :
           /\ j < i
           /\ IF e.e = "and" THEN trace[j].v # 0 ELSE trace[j].v = 0
    /\ \A i \in ValueAt(e) :
         /\ ValueAt(e.l) # {}
         /\ trace[i].v =
              IF e.e = "and"
              THEN (IF Truth(e.l) /\ Truth(e.r) THEN 1 ELSE 0)
              ELSE (IF Truth(e.l) \/ Truth(e.r) THEN 1 ELSE 0)

\* In (a || b) && c, a was 2 so b never ran and a || b is 1; c was 2 and the
\* whole expression is 1.
C8_Witness ==
  \E e \in ProbeBinops :
    /\ e.e = "and" /\ e.l.e = "or"
    /\ \E i \in ValueAt(e.l.l) : trace[i].v = 2
    /\ RanAt(e.l.r) = {}
    /\ \E i \in ValueAt(e.l) : trace[i].v = 1
    /\ \E i \in ValueAt(e.r) : trace[i].v = 2
    /\ \E i \in ValueAt(e) : trace[i].v = 1

\* The lifetime-ends of stack slot s in block k.
EndsIn(s, k) ==
  Cardinality({ i \in 1..Len(ir_fn[k].insts) :
                  ir_fn[k].insts[i].op = "lifetime_end" /\ ir_fn[k].insts[i].a = s })

\* Block k ends in a return.
Returns(k) == \E i \in 1..Len(ir_fn[k].insts) : ir_fn[k].insts[i].op = "ret"

\* For every control-flow path from the start of block k to a return, the
\* number of lifetime-ends of slot s on it (the blocks form no cycle).
RECURSIVE EndCounts(_, _)
EndCounts(s, k) ==
  IF Returns(k) THEN {EndsIn(s, k)}
  ELSE { EndsIn(s, k) + n : n \in UNION { EndCounts(s, j) : j \in Succs(k) } }

\* The stack slots allocated in block k.
AllocasIn(k) ==
  { ir_fn[k].insts[i].a : i \in { j \in 1..Len(ir_fn[k].insts) :
                                    ir_fn[k].insts[j].op = "alloca" } }

\* C18: in an emitted program every stack allocation in a block control can
\* reach is followed by exactly one lifetime-end of its slot on every path from
\* the allocation to a return.
C18_LifetimeBalanced ==
  Lowered =>
    \A k \in Reachable : \A s \in AllocasIn(k) : EndCounts(s, k) \subseteq {1}

\* The ids of the nodes of the probe body.
BodyIds == UNION { StmtIds(ir_probe.stmts[i]) : i \in DOMAIN ir_probe.stmts }

\* The blocks control can reach from the blocks S without entering block x.
RECURSIVE ReachableAvoiding(_, _)
ReachableAvoiding(S, x) ==
  IF ((UNION { Succs(k) : k \in S }) \ {x}) \subseteq S THEN S
  ELSE ReachableAvoiding(S \cup ((UNION { Succs(k) : k \in S }) \ {x}), x)

PredTrueBlocks == { k \in BlockIdx : ir_fn[k].name = "pred_true" }

\* The values the predicate has had in this run.
PredValues ==
  { trace[i].v : i \in { i \in DOMAIN trace : trace[i].ev = "value"
                                               /\ trace[i].node = ir_probe.pred.id } }

\* The events of the probe body: values of its expressions, map lookups and
\* updates, records sent.
BodyEvents == { i \in DOMAIN trace : trace[i].node \in BodyIds }

\* C21: with a predicate, every block holding an instruction of the body is
\* reached from the entry block only through pred_true, which is entered only
\* by the branch on predcond and only when the zero-extended predicate value
\* is not 0; a run whose predicate is 0 executes nothing of the body and
\* returns 0 from pred_false.
C21_PredicateGuardsBody ==
  (ir_probe.has_pred /\ Lowered) =>
    /\ \A t \in PredTrueBlocks :
         /\ BlocksOf(BodyIds) \cap ReachableAvoiding({1}, t) = {}
         /\ \A j \in Preds(t) :
              /\ ir_fn[j].insts[Len(ir_fn[j].insts)].op = "condbr"
              /\ ir_fn[j].insts[Len(ir_fn[j].insts)].c = t
              /\ ir_fn[j].insts[Len(ir_fn[j].insts)].b # t
              /\ ir_fn[j].insts[Len(ir_fn[j].insts) - 1].note = "predcond"
    /\ Cardinality(PredTrueBlocks) = 1
    /\ BodyEvents # {} => (PredValues # {} /\ 0 \notin PredValues)
    /\ 0 \in PredValues =>
         /\ BodyEvents = {}
         /\ \A i \in DOMAIN trace : trace[i].ev = "value"
         /\ ir_pc = "returned" => (retval = 0 /\ ret_site = "pred_false")
    /\ (ir_pc = "returned" /\ ret_site = "pred_false") => 0 \in PredValues

\* A program with the predicate a && b and a body of count(), return and
\* printf() has returned from pred_false: the predicate was 0 and nothing of
\* the body happened.
C21_Witness ==
  /\ ir_probe.has_pred
  /\ ir_probe.pred.e = "and"
  /\ ir_pc = "returned"
  /\ ret_site = "pred_false"
  /\ PredValues = {0}
  /\ BodyEvents = {}
  /\ BlocksOf(BodyIds) # {}

\* ------------------------------------------------------------ map claims

\* Some CPU completes an invocation of count() on key k in this step.
UpdateOf(k) ==
  \E c \in Cpus : cpu[c].at = "looked_up" /\ cpu[c].key = k /\ cpu'[c].at = "idle"

SlotHolds(k, n) == map_slots[k] = NatWord(n)

\* While the invocations on key k run one after another, the slot of k, absent
\* at the start, holds the number of invocations completed.
SequentialCount ==
  \A k \in Keys :
    (~overlapped[k] /\ map_init[k] = Absent) =>
      IF completed[k] = 0 THEN map_slots[k] = Absent
      ELSE SlotHolds(k, completed[k])

\* An invocation that overlapped no other on its key raises the slot by 1
\* modulo 2^WordBits, an absent slot counting as 0, and changes no other slot.
SequentialStep ==
  \A k \in Keys :
    (UpdateOf(k) /\ ~overlapped[k]) =>
      /\ map_slots'[k] =
           IF map_slots[k] = Absent THEN NatWord(1)
           ELSE IF map_slots[k] = MaxWord THEN ZeroWord
           ELSE Carry(map_slots[k], Len(ZeroWord))
      /\ \A o \in Keys \ {k} : map_slots'[o] = map_slots[o]

\* C9: when invocations of count() on one key run one after another, each raises
\* the slot by exactly 1 modulo 2^64 (an absent slot reading as 0), after n of
\* them a slot that started absent holds n, and no other slot changes.
C9_SequentialCount == []SequentialCount /\ [][SequentialStep]_vars

\* Two invocations on key 1 ran one after the other from an absent slot, which
\* holds 2; the slot of key 2 holds what it held at the start.
C9_Witness ==
  /\ ~overlapped[1]
  /\ map_init[1] = Absent
  /\ completed[1] = 2
  /\ SlotHolds(1, 2)
  /\ map_init[2] = MaxWord
  /\ map_slots[2] = MaxWord

RECURSIVE LexLeq(_, _, _)
LexLeq(a, b, i) ==
  \/ i > Len(a)
  \/ a[i] < b[i]
  \/ a[i] = b[i] /\ LexLeq(a, b, i + 1)

\* a <= b as slot values, an absent slot being below every value.
SlotLeq(a, b) == a = Absent \/ (b # Absent /\ LexLeq(a, b, 1))

\* Once the invocations on k have completed, the slot of k, absent at the
\* start, holds their number.
HoldsCompleted ==
  \A k \in Keys :
    (map_init[k] = Absent /\ InFlight(k) = {} /\ completed[k] >= 1) =>
      SlotHolds(k, completed[k])

NeverDecreases ==
  \A k \in Keys : map_init[k] = Absent => SlotLeq(map_slots[k], map_slots'[k])

\* C10 as stated: with the invocations of count() on one key interleaved on
\* several CPUs, once n invocations have completed the slot holds n, and the
\* slot value never decreases.
C10_CountsEveryCall == []HoldsCompleted /\ [][NeverDecreases]_vars

\* C10 amended: with the invocations interleaved, every invocation stores the
\* value it looked up plus 1, so once n >= 1 invocations on a key have completed
\* and none is in flight, the slot, absent at the start, holds some value from 1
\* to n; it holds n when no two of them overlapped.
C10_CountsAtMostEveryCall ==
  \A k \in Keys :
    (map_init[k] = Absent /\ InFlight(k) = {} /\ completed[k] >= 1) =>
      /\ \E v \in 1..completed[k] : SlotHolds(k, v)
      /\ ~overlapped[k] => SlotHolds(k, completed[k])

\* Three invocations on key 1 have completed, two of them overlapping, and the
\* slot holds 1.
C10_Witness ==
  /\ map_init[1] = Absent
  /\ overlapped[1]
  /\ InFlight(1) = {}
  /\ completed[1] = 3
  /\ SlotHolds(1, 1)

\* ------------------------------------------------------- helper claims

\* The e with 2^e <= n < 2^(e + 1), for a word n that is not zero.
FloorLog2(n) ==
  CHOOSE e \in 0..(WordBits - 1) :
    /\ ~ICmpULT(n, Pow2Word(e))
    /\ e < WordBits - 1 => ICmpULT(n, Pow2Word(e + 1))

\* A call of log2 has returned.
Log2Returned == fn_pc = "returned" /\ Len(fn_args) = 1

\* C16: log2 returns 0 for n < 0, 1 for n = 0 and 2 + floor(log2(n)) for
\* 1 <= n < 2^32, in the last case after all five unrolled steps 4..0 have run.
C16_Log2Buckets ==
  Log2Returned =>
    /\ IsNegative(fn_args[1]) => fn_ret = ZeroWord
    /\ fn_args[1] = ZeroWord => fn_ret = NatWord(1)
    /\ (fn_args[1] # ZeroWord /\ ICmpULT(fn_args[1], Pow2Word(WordBits \div 2)))
         => /\ fn_ret = NatWord(2 + FloorLog2(fn_args[1]))
            /\ fn_i = -1

\* log2 has returned bucket 33 for the largest n below 2^32.
C16_Witness ==
  /\ Log2Returned
  /\ fn_args[1] = CreateSub(Pow2Word(WordBits \div 2), NatWord(1))
  /\ fn_ret = NatWord(1 + WordBits \div 2)
  /\ fn_i = -1

\* A call of linear has returned.
LinearReturned == fn_pc = "returned" /\ Len(fn_args) = 4

\* a < b when both words are read as two's complement numbers: the order of
\* the words moved up by 2^63.
SignedBelow(a, b) ==
  ICmpULT(CreateAdd(a, Pow2Word(WordBits - 1)), CreateAdd(b, Pow2Word(WordBits - 1)))

\* 1 + (hi - lo) / step, the subtraction modulo 2^64 and the division unsigned.
BucketOf(hi, lo, step) == CreateAdd(CreateUDiv(CreateSub(hi, lo), step), NatWord(1))

\* C17 as stated: linear returns 0 below min, 1 + (max - min) / step above max
\* and 1 + (value - min) / step otherwise, with every comparison unsigned.
C17_LinearUnsigned ==
  LinearReturned =>
    fn_ret = IF ICmpULT(fn_args[1], fn_args[2]) THEN ZeroWord
             ELSE IF ICmpUGT(fn_args[1], fn_args[3])
                  THEN BucketOf(fn_args[3], fn_args[2], fn_args[4])
             ELSE BucketOf(fn_args[1], fn_args[2], fn_args[4])

\* C17 amended: the same three cases, with the two comparisons signed; the
\* subtraction is modulo 2^64 and the division, by a step that is not 0, unsigned.
C17_LinearSignedCompare ==
  (LinearReturned /\ fn_args[4] # ZeroWord) =>
    fn_ret = IF SignedBelow(fn_args[1], fn_args[2]) THEN ZeroWord
             ELSE IF SignedBelow(fn_args[3], fn_args[1])
                  THEN BucketOf(fn_args[3], fn_args[2], fn_args[4])
             ELSE BucketOf(fn_args[1], fn_args[2], fn_args[4])

\* linear has returned 0 for the value -1, which is above max when read unsigned.
C17_Witness ==
  /\ LinearReturned
  /\ fn_args[1] = MaxWord
  /\ fn_args[2] = ZeroWord
  /\ fn_ret = ZeroWord

\* ------------------------------------------------------- aggregation claims

\* The value of an integer operand as a 64-bit two's complement number, limb
\* by limb: above the sign bit of a negative operand of a signed type every
\* bit is 1.
ValueOf(arg) ==
  IF /\ arg.signed
     /\ arg.bits < WordBits
     /\ (arg.raw[Len(ZeroWord) - ((arg.bits - 1) \div (WordBits \div Len(ZeroWord)))]
           \div (2 ^ ((arg.bits - 1) % (WordBits \div Len(ZeroWord))))) % 2 = 1
  THEN Settle([i \in DOMAIN ZeroWord |->
         IF (Len(ZeroWord) - i) * (WordBits \div Len(ZeroWord)) >= arg.bits
         THEN LimbBase - 1
         ELSE IF (Len(ZeroWord) - i + 1) * (WordBits \div Len(ZeroWord)) <= arg.bits
              THEN arg.raw[i]
         ELSE arg.raw[i] + LimbBase
                - 2 ^ (arg.bits - (Len(ZeroWord) - i) * (WordBits \div Len(ZeroWord)))])
  ELSE arg.raw

\* The sums of the limbs of the words of a sequence, without carries.
RECURSIVE LimbTotals(_)
LimbTotals(ws) ==
  IF ws = <<>> THEN ZeroWord
  ELSE Settle([i \in DOMAIN ZeroWord |-> Head(ws)[i] + LimbTotals(Tail(ws))[i]])

\* The carry out of limb i of limb totals t.
RECURSIVE CarryOut(_, _)
CarryOut(t, i) ==
  IF i > Len(t) THEN 0 ELSE (t[i] + CarryOut(t, i + 1)) \div LimbBase

\* The sum of the words of a sequence modulo 2^64.
WordSum(ws) ==
  Settle([i \in DOMAIN ZeroWord |->
            (LimbTotals(ws)[i] + CarryOut(LimbTotals(ws), i + 1)) % LimbBase])

\* What a lookup of the key finds in map m, an uninitialized slot reading as 0.
Read(m, key) == IF key \in DOMAIN m THEN m[key] ELSE ZeroWord

\* The map m with the slot of the key set to val and every other slot as it was.
WithSlot(m, key, val) ==
  [s \in DOMAIN m \cup {key} |-> IF s = key THEN val ELSE m[s]]

\* The operands of the completed calls on key argument k, in order.
RECURSIVE PassedOn(_, _)
PassedOn(passed, k) ==
  IF passed = <<>> THEN <<>>
  ELSE IF Head(passed)[1] = k
       THEN <<Head(passed)[2]>> \o PassedOn(Tail(passed), k)
  ELSE PassedOn(Tail(passed), k)

\* The values of a sequence of operand lists: the first operand of each.
ValuesOf(argss) == [i \in DOMAIN argss |-> ValueOf(argss[i][1])]

\* Every call started has completed, and no two calls on one key overlapped.
RanInTurn ==
  /\ ~agg_log.overlapped
  /\ \A c \in Cpus : agg_cpu[c].pc = "idle"

\* 0xffffffff, the number min subtracts its operand from.
MinBias == CreateSub(Pow2Word(WordBits \div 2), NatWord(1))

\* C11: a call of min that looked up an uninitialized slot has made the map
\* update, whatever its operand and whatever the other CPUs did.
C11_FirstMinIsStored ==
  (agg_log.last.fn = "min" /\ agg_log.last.absent) => agg_log.last.wrote

\* C12: after calls of min run in turn on a key, the slot holds 0xffffffff - v
\* for a v that was passed, 0xffffffff minus the slot is the least v passed, and
\* a call wrote only when its inverted value was not below the value it read.
C12_MinDecodes ==
  /\ (agg_log.last.fn = "min" /\ agg_log.last.wrote)
       => ~SignedBelow(CreateSub(MinBias, ValueOf(agg_log.last.args[1])),
                       agg_log.last.seen)
  /\ (agg_fn = "min" /\ RanInTurn)
       => \A k \in Keys :
            PassedOn(agg_log.passed, k) # <<>>
              => /\ AggMapKey(k) \in DOMAIN agg_slots
                 /\ \E i \in DOMAIN PassedOn(agg_log.passed, k) :
                      agg_slots[AggMapKey(k)]
                        = CreateSub(MinBias, ValuesOf(PassedOn(agg_log.passed, k))[i])
                 /\ \A i \in DOMAIN PassedOn(agg_log.passed, k) :
                      ~SignedBelow(ValuesOf(PassedOn(agg_log.passed, k))[i],
                                   CreateSub(MinBias, agg_slots[AggMapKey(k)]))

\* C13: a call of max wrote exactly when its operand was not below the value
\* it read, in the signed order; it then stored the operand in its slot and
\* changed no other slot, otherwise it changed nothing; a call that no other
\* call on its key overlapped did not lower the slot.
C13_MaxStoresWhenNotBelow ==
  agg_log.last.fn = "max" =>
    /\ agg_log.last.wrote
         <=> ~SignedBelow(ValueOf(agg_log.last.args[1]), agg_log.last.seen)
    /\ agg_log.last.wrote
         => agg_slots = WithSlot(agg_log.last.before, AggMapKey(agg_log.last.k),
                                 ValueOf(agg_log.last.args[1]))
    /\ ~agg_log.last.wrote => agg_slots = agg_log.last.before
    /\ agg_log.last.alone
         => ~SignedBelow(Read(agg_slots, AggMapKey(agg_log.last.k)),
                         Read(agg_log.last.before, AggMapKey(agg_log.last.k)))

\* A call max(-1), the operand of a signed 32-bit type, has left the 5 it read.
C13_Witness ==
  /\ agg_log.last.fn = "max"
  /\ agg_log.last.args[1] = MinusOne(WordBits \div 2)
  /\ agg_log.last.seen = NatWord(5)
  /\ ~agg_log.last.wrote
  /\ agg_log.last.alone
  /\ agg_log.completed = 2

\* C14: a call of sum stored the value it read plus its operand, extended to
\* 64 bits by the signedness of the operand's type, modulo 2^64, and changed
\* no other slot; after calls run in turn every slot holds the sum of the
\* extended operands passed on its key, modulo 2^64.
C14_SumAddsExtended ==
  /\ agg_log.last.fn = "sum"
       => /\ agg_log.last.wrote
          /\ agg_slots
               = WithSlot(agg_log.last.before, AggMapKey(agg_log.last.k),
                          WordSum(<<agg_log.last.seen, ValueOf(agg_log.last.args[1])>>))
  /\ (agg_fn = "sum" /\ RanInTurn)
       => \A k \in Keys :
            Read(agg_slots, AggMapKey(k)) = WordSum(ValuesOf(PassedOn(agg_log.passed, k)))

\* sum(-1) of a signed 32-bit operand after sum(3) on the same key: the slot holds 2.
C14_Witness ==
  /\ agg_fn = "sum"
  /\ RanInTurn
  /\ agg_log.completed = 2
  /\ agg_log.last.args[1] = MinusOne(WordBits \div 2)
  /\ agg_log.last.seen = NatWord(3)
  /\ agg_slots[AggMapKey(agg_log.last.k)] = NatWord(2)

\* The bucket of a completed call of hist or lhist, by log2 or linear.
BucketOfCall(fn, args) ==
  IF fn = "hist" THEN log2(ValueOf(args[1]))
  ELSE linear(ValueOf(args[1]), args[2].raw, args[3].raw, args[4].raw)

\* The slots of map m that belong to key argument k, as a sequence.
RECURSIVE SlotsOf(_, _, _)
SlotsOf(m, k, keys) ==
  IF keys = {} THEN <<>>
  ELSE IF (CHOOSE key \in keys : TRUE)[1] = k
       THEN <<m[CHOOSE key \in keys : TRUE]>>
              \o SlotsOf(m, k, keys \ {CHOOSE key \in keys : TRUE})
  ELSE SlotsOf(m, k, keys \ {CHOOSE key \in keys : TRUE})

\* C15: a call of hist or lhist stored the value it read plus 1 in the one slot
\* keyed by its key argument and its bucket and changed no other slot of the
\* map; a call that no other call on its slot overlapped raised the slot by 1;
\* after calls run in turn the buckets of a key add up to the calls on the key.
C15_HistBumpsOneBucket ==
  /\ agg_log.last.fn \in {"hist", "lhist"}
       => /\ agg_log.last.key
               = <<agg_log.last.k, BucketOfCall(agg_log.last.fn, agg_log.last.args)>>
          /\ agg_log.last.wrote
          /\ agg_slots = WithSlot(agg_log.last.before, agg_log.last.key,
                                  WordSum(<<agg_log.last.seen, NatWord(1)>>))
          /\ agg_log.last.alone
               => agg_slots[agg_log.last.key]
                    = WordSum(<<Read(agg_log.last.before, agg_log.last.key), NatWord(1)>>)
  /\ (agg_fn \in {"hist", "lhist"} /\ RanInTurn)
       => \A k \in Keys :
            WordSum(SlotsOf(agg_slots, k, DOMAIN agg_slots))
              = NatWord(Len(PassedOn(agg_log.passed, k)))

\* hist(-1) of a signed 32-bit operand has raised bucket 0 of key 1, whose
\* bucket 4 an earlier hist(5) had raised.
C15_Witness ==
  /\ agg_log.last.fn = "hist"
  /\ agg_log.last.args[1] = MinusOne(WordBits \div 2)
  /\ agg_log.last.key = <<1, ZeroWord>>
  /\ agg_log.completed = 2
  /\ <<1, NatWord(4)>> \in DOMAIN agg_slots
  /\ agg_slots[<<1, ZeroWord>>] = NatWord(1)

\* The greatest of 0 and the words of a sequence, in the signed order.
RECURSIVE SignedMaxOrZero(_)
SignedMaxOrZero(ws) ==
  IF ws = <<>> THEN ZeroWord
  ELSE IF SignedBelow(Head(ws), SignedMaxOrZero(Tail(ws)))
       THEN SignedMaxOrZero(Tail(ws))
  ELSE Head(ws)

\* C30: after calls of max run one after another, every key's slot, which
\* started uninitialized, holds the larger of 0 and the signed maximum of the
\* operands passed on the key; no slot holds a negative value, and a key that
\* was passed only negative operands reads 0.
C30_MaxOfSequence ==
  /\ agg_fn = "max" => \A s \in DOMAIN agg_slots : ~IsNegative(agg_slots[s])
  /\ (agg_fn = "max" /\ RanInTurn)
       => \A k \in Keys :
            Read(agg_slots, AggMapKey(k))
              = SignedMaxOrZero(ValuesOf(PassedOn(agg_log.passed, k)))

\* max(-1) and max of the least 64-bit integer, in either order, have run in
\* turn on one key, which reads 0.
C30_Witness ==
  /\ agg_fn = "max"
  /\ RanInTurn
  /\ \E k \in Keys :
       /\ Len(PassedOn(agg_log.passed, k)) = 2
       /\ \A i \in 1..2 : IsNegative(ValuesOf(PassedOn(agg_log.passed, k))[i])
       /\ ValuesOf(PassedOn(agg_log.passed, k))[1]
            # ValuesOf(PassedOn(agg_log.passed, k))[2]
       /\ Read(agg_slots, AggMapKey(k)) = ZeroWord

\* ------------------------------------------------------- context claims

\* C20: every load emitted whose address is computed from the context pointer,
\* and every copy out of the context, is marked volatile.
C20_ContextLoadsVolatile ==
  \A i \in 1..Len(ctx_insts) :
    (ctx_insts[i].op \in {"load", "memcpy"} /\ ctx_insts[i].from = "ctx")
      => ctx_insts[i].volatile

\* sarg0 and a bitfield of a context record have been lowered: the read of the
\* stack pointer and the read of the bitfield are volatile loads from the
\* context, the load of the copied stack argument is a plain load.
C20_Witness ==
  /\ Len(ctx_log) = 2
  /\ ctx_log[1].kind = "builtin"
  /\ ctx_log[1].node.ident = "sarg0"
  /\ ctx_log[2].kind = "field"
  /\ ctx_log[2].node = [rec |-> "ctx", field |-> "bitfield"]
  /\ ctx_insts[1] = MemInst("load", "ctx", TRUE, "reg_sp")
  /\ ctx_insts[3] = MemInst("load", "stack", FALSE, "sarg0")
  /\ ctx_insts[4] = MemInst("load", "ctx", TRUE, "bitfield")

\* ------------------------------------------------------ str and buf claims

\* The word after w, the word after the largest one being 0.
RECURSIVE NextWord(_, _)
NextWord(w, i) ==
  IF i = 0 THEN w
  ELSE IF w[i] = LimbBase - 1 THEN NextWord([w EXCEPT ![i] = 0], i - 1)
  ELSE [w EXCEPT ![i] = @ + 1]

\* The smaller of two words read as unsigned numbers.
UMin(a, b) == IF LexLeq(a, b, 1) THEN a ELSE b

StrDone == call_pc = "done" /\ call_in.func = "str"
BufDone == call_pc = "done" /\ call_in.func = "buf"

\* C22: the size str(ptr, len) hands to probe_read_str is len + 1 (modulo
\* 2^64) when that is at most the cap as an unsigned number and the cap
\* otherwise; whatever len is, the size is at most the bytes of the buffer.
C22_StrSizeClamped ==
  StrDone =>
    /\ call_in.nargs > 1 =>
         call_val.size = UMin(NextWord(call_in.len, Len(ZeroWord)),
                              NatWord(call_in.strlen_))
    /\ call_val.dst_bytes = call_in.strlen_
    /\ LexLeq(call_val.size, NatWord(call_val.dst_bytes), 1)

\* str has run with len = 2^64 - 1 and a cap above 1: len + 1 is 0 and the
\* size handed to probe_read_str is 0.
C22_Witness ==
  /\ StrDone
  /\ call_in.nargs > 1
  /\ call_in.len = MaxWord
  /\ call_in.strlen_ > 1
  /\ call_val.proposed = ZeroWord
  /\ call_val.size = ZeroWord

Releases == 1..Len(rel_log)

\* The places a release is kept at: expr_deleter_ and the scoped_del locals
\* of the visits in progress.
HeldAt(r) ==
  { <<f, i>> \in (1..Len(rel_stack)) \X (1..MaxRelNodes) :
      i <= Len(rel_stack[f].held) /\ rel_stack[f].held[i] = r }

Ended(r) == rel_log[r].invoked + rel_log[r].owner_ended

IsPrefix(s, t) == Len(s) <= Len(t) /\ SubSeq(t, 1, Len(s)) = s

WalkOver ==
  /\ Len(rel_stack) = 1
  /\ rel_stack[1].done = MaxStatements
  /\ rel_stack[1].held = <<>>

\* C24: expr_deleter_ is empty while a visit makes its accept() calls and
\* after accept() has returned, nothing it holds is ever overwritten, every
\* release is at one place only (expr_deleter_, one scoped_del of an enclosing
\* visit, or ended), is ended at most once, by an invocation or by the owner of
\* the value after a disarm, only visits enclosing the one that installed it
\* ever hold it, and when the walk is over every release has been ended once.
C24_OneReleaseOneEnd ==
  /\ Top.status = "visiting" => rel_slot = 0
  /\ rel_slot # 0 => IsPrefix(Top.path, rel_log[rel_slot].node)
  /\ \A r \in Releases :
       /\ rel_log[r].lost = 0
       /\ Ended(r) <= 1
       /\ Cardinality(HeldAt(r)) + (IF rel_slot = r THEN 1 ELSE 0) + Ended(r) = 1
       /\ \A h \in HeldAt(r) :
            /\ IsPrefix(rel_stack[h[1]].path, rel_log[r].node)
            /\ rel_stack[h[1]].path # rel_log[r].node
  /\ WalkOver => (rel_slot = 0 /\ \A r \in Releases : Ended(r) = 1)

\* The walk of two statements is over: a release was re-armed by a field
\* access and then invoked once, another was disarmed by getMapKey and its
\* value ended by the owner.
C24_Witness ==
  /\ WalkOver
  /\ \E r \in Releases :
       rel_log[r].rearmed = 1 /\ rel_log[r].invoked = 1 /\ rel_log[r].owner_ended = 0
  /\ \E r \in Releases :
       rel_log[r].invoked = 0 /\ rel_log[r].owner_ended = 1

\* ------------------------------------------------------------ loop claims

LoopBlockIdx == 1..Len(loop_b.blocks)

\* The blocks a block of the function being built branches to.
LoopSuccs(k) ==
  UNION { IF loop_b.blocks[k].insts[i].op = "br" THEN {loop_b.blocks[k].insts[i].a}
          ELSE IF loop_b.blocks[k].insts[i].op = "condbr"
               THEN {loop_b.blocks[k].insts[i].b, loop_b.blocks[k].insts[i].c}
          ELSE {} : i \in 1..Len(loop_b.blocks[k].insts) }

LoopPreds(k) == { j \in LoopBlockIdx : k \in LoopSuccs(j) }

\* The last instruction of a block.
LastInst(k) == loop_b.blocks[k].insts[Len(loop_b.blocks[k].insts)]

JumpsLowered == { i \in DOMAIN loop_log : loop_log[i].ev \in {"break", "continue", "return"} }

\* C25: a break branches to while_end and a continue to while_cond of the
\* innermost while being lowered; loops_ holds one pair per while being
\* lowered, the pair of its blocks, and has on leaving a while the contents it
\* had on entering it; after a Jump the insertion point is a new, empty block
\* named unreach, which never gets a predecessor.
C25_JumpsAndLoopStack ==
  /\ Len(loops_) = Len(loop_frames)
  /\ \A d \in DOMAIN loops_ :
       loops_[d] = <<loop_frames[d].while_cond, loop_frames[d].while_end>>
  /\ \A i \in DOMAIN loop_log :
       /\ loop_log[i].ev = "left" => loop_log[i].left = loop_log[i].entered
       /\ loop_log[i].ev = "break" =>
            /\ LastInst(loop_log[i].from).op = "br"
            /\ LastInst(loop_log[i].from).a =
                 loop_log[i].frames[Len(loop_log[i].frames)].while_end
            /\ loop_b.blocks[LastInst(loop_log[i].from).a].name = "while_end"
       /\ loop_log[i].ev = "continue" =>
            /\ LastInst(loop_log[i].from).op = "br"
            /\ LastInst(loop_log[i].from).a =
                 loop_log[i].frames[Len(loop_log[i].frames)].while_cond
            /\ loop_b.blocks[LastInst(loop_log[i].from).a].name = "while_cond"
       /\ i \in JumpsLowered =>
            /\ loop_log[i].fresh
            /\ loop_b.blocks[loop_log[i].at].name = "unreach"
            /\ LoopPreds(loop_log[i].at) = {}
            /\ Len(loop_b.blocks[loop_log[i].from].insts) > 0
            /\ LastInst(loop_log[i].from).op \in {"br", "ret"}
       /\ (i \in JumpsLowered /\ i = Len(loop_log)) => loop_b.cur = loop_log[i].at

\* Two nested whiles have been lowered and left, with a break in the inner
\* and a continue in the outer one: the two jumps have different targets, and
\* the unreach block after the break took the branch back to while_cond.
C25_Witness ==
  /\ loop_frames = <<>>
  /\ loops_ = <<>>
  /\ \E i, j \in DOMAIN loop_log :
       /\ loop_log[i].ev = "break"
       /\ Len(loop_log[i].frames) = 2
       /\ loop_log[j].ev = "continue"
       /\ Len(loop_log[j].frames) = 1
       /\ i < j
       /\ Len(loop_b.blocks[loop_log[i].at].insts) > 0
       /\ LastInst(loop_log[i].from).a # loop_log[i].frames[1].while_end
  /\ Cardinality({ i \in DOMAIN loop_log : loop_log[i].ev = "left" }) = 2

\* ------------------------------------------------------------ phase claims
Phases == <<"INIT", "IR", "OPT", "DONE">>

\* The operations that use the module.
ModuleOps == {"generate_ir", "optimize", "emit", "emit_elf", "DumpIR"}

\* The calls of the history that ran to their return.
ReturnedCalls == {i \in 1..Len(gen_log) : gen_log[i].outcome = "returned"}

\* The calls of the history that moved the generator into the phase p.
Entries(p) ==
  {i \in 1..Len(gen_log) :
     /\ gen_log[i].op # "compile"
     /\ gen_log[i].to = p
     /\ gen_log[i].from # p}

\* The phases the operation is accepted in and the phase it leaves.
AcceptedIn(op) ==
  CASE op = "generate_ir" -> [from |-> {"INIT"}, to |-> "IR"]
    [] op = "optimize" -> [from |-> {"IR"}, to |-> "OPT"]
    [] op = "emit" -> [from |-> {"OPT"}, to |-> "DONE"]
    [] op = "emit_elf" -> [from |-> {"OPT"}, to |-> "OPT"]
    [] op = "compile" -> [from |-> {"INIT"}, to |-> "DONE"]

\* C28: the phase only moves INIT, IR, OPT, DONE: generate_ir returns only
\* when called in INIT, optimize only in IR, emit and emit_elf only in OPT;
\* emit_elf leaves the phase as it was, returning or throwing; compile called
\* in INIT and returning leaves DONE; no phase is entered twice; and once emit
\* has returned, no later call of generate_ir, optimize, emit, emit_elf or
\* DumpIR returns.
C28_PhasesInOrder ==
  /\ \A i \in ReturnedCalls :
       LET c == gen_log[i]
       IN IF c.op = "DumpIR" THEN c.to = c.from
          ELSE c.from \in AcceptedIn(c.op).from /\ c.to = AcceptedIn(c.op).to
  /\ \A i \in 1..Len(gen_log) :
       gen_log[i].op = "emit_elf" => gen_log[i].to = gen_log[i].from
  /\ \A p \in Range(Phases) : Cardinality(Entries(p)) <= 1
  /\ Entries("INIT") = {}
  /\ \A i \in 1..Len(gen_log) : \A j \in (i + 1)..Len(gen_log) :
       gen_log[i].op # "compile" /\ gen_log[j].op # "compile" =>
         PosIn(Phases, gen_log[i].to) <= PosIn(Phases, gen_log[j].from)
  /\ \A i \in ReturnedCalls : \A j \in (i + 1)..Len(gen_log) :
       gen_log[i].op = "emit" /\ gen_log[j].op \in ModuleOps =>
         gen_log[j].outcome = "aborted"
  /\ gen_log # <<>> => state_ = gen_log[Len(gen_log)].to

\* The four phases were walked one call at a time, emit_elf ran in OPT, and
\* DumpIR called after emit was refused.
C28_Witness ==
  /\ Len(gen_log) = 5
  /\ [i \in 1..5 |-> gen_log[i].op] =
       <<"generate_ir", "optimize", "emit_elf", "emit", "DumpIR">>
  /\ \A i \in 1..4 : gen_log[i].outcome = "returned"
  /\ gen_log[5].outcome = "aborted"
  /\ state_ = "DONE"

====
